---- MODULE Spec2Model ----
(***************************************************************************)
(* Model of the finance_clean metric pipeline (compute_all and the         *)
(* primitives it is built from).                                           *)
(*                                                                         *)
(* Numbers.  A Python float is modelled exactly as one of                   *)
(*   - a finite value  (n/d) * 10^e, kept in a canonical form,              *)
(*   - NaN, +infinity, -infinity,                                           *)
(* and Python's None is a value of its own.  Finite arithmetic is exact     *)
(* (binary rounding error and overflow of finite operands to infinity are   *)
(* not modelled); the IEEE rules for NaN and the infinities are.            *)
(***************************************************************************)
EXTENDS Integers, Sequences, FiniteSets, TLC

\* ------------------------------------------------------------ numbers

RECURSIVE Gcd(_, _)
Gcd(a, b) == IF b = 0 THEN a ELSE Gcd(b, a % b)

AbsI(x) == IF x < 0 THEN -x ELSE x

RECURSIVE Pow10(_)
Pow10(k) == IF k <= 0 THEN 1 ELSE 10 * Pow10(k - 1)

Raw(n, d, e) == [k |-> "fin", n |-> n, d |-> d, e |-> e]

\* Canonical form of (n/d)*10^e, d > 0: gcd(n,d) = 1, d coprime to 10,
\* n not a multiple of 10, and zero is 0/1 * 10^0.
RECURSIVE Canon(_, _, _)
Canon(n, d, e) ==
  IF n = 0 THEN Raw(0, 1, 0)
  ELSE LET g == Gcd(AbsI(n), d) IN
       IF g > 1 THEN Canon(n \div g, d \div g, e)
       ELSE IF d % 2 = 0 THEN Canon(n * 5, d \div 2, e - 1)
       ELSE IF d % 5 = 0 THEN Canon(n * 2, d \div 5, e - 1)
       ELSE IF n % 10 = 0 THEN Canon(n \div 10, d, e + 1)
       ELSE Raw(n, d, e)

Num(n) == Canon(n, 1, 0)
Frac(n, d) == Canon(n, d, 0)
Sci(n, e) == Canon(n, 1, e)

NaN == [k |-> "nan", n |-> 0, d |-> 1, e |-> 0]
PInf == [k |-> "inf", n |-> 1, d |-> 1, e |-> 0]
NInf == [k |-> "inf", n |-> -1, d |-> 1, e |-> 0]
None == [k |-> "none", n |-> 0, d |-> 1, e |-> 0]
\* A value that is not a number at all (a string cell of a raw table).
Str == [k |-> "str", n |-> 0, d |-> 1, e |-> 0]

IsFin(x) == x.k = "fin"
IsNaN(x) == x.k = "nan"
IsInfV(x) == x.k = "inf"
IsNone(x) == x.k = "none"

\* pd.isna: true of None and NaN, false of the infinities and of numbers.
IsNa(x) == IsNone(x) \/ IsNaN(x)

Sign(x) == IF x.n > 0 THEN 1 ELSE IF x.n < 0 THEN -1 ELSE 0

Neg(x) == IF IsFin(x) \/ IsInfV(x) THEN [x EXCEPT !.n = -x.n] ELSE x

AbsV(x) == IF Sign(x) < 0 THEN Neg(x) ELSE x

\* Magnitude comparison of two positive finite values without overflow:
\* (L * 10^dl < R), for L, R >= 1 (both below 10^10, like every integer here).
ScaledLess(L, dl, R) ==
  IF dl = 0 THEN L < R
  ELSE IF dl > 0 THEN dl <= 9 /\ L <= (R - 1) \div Pow10(dl)
  ELSE ~(-dl <= 9 /\ R <= L \div Pow10(-dl))

PosLess(x, y) == ScaledLess(x.n * y.d, x.e - y.e, y.n * x.d)

\* x < y on floats: false as soon as an operand is NaN.
Less(x, y) ==
  IF IsNaN(x) \/ IsNaN(y) THEN FALSE
  ELSE IF IsInfV(x) THEN x.n < 0 /\ ~(IsInfV(y) /\ y.n < 0)
  ELSE IF IsInfV(y) THEN y.n > 0
  ELSE IF Sign(x) # Sign(y) THEN Sign(x) < Sign(y)
  ELSE IF Sign(x) = 0 THEN FALSE
  ELSE IF Sign(x) > 0 THEN PosLess(x, y)
  ELSE PosLess(Neg(y), Neg(x))

\* x > y taken as "not x < y": true of equal and of unknown operands.
Greater_notless(x, y) == ~Less(x, y)

\* x > y on floats.
Greater(x, y) == Less(y, x)
LessEq(x, y) == ~IsNaN(x) /\ ~IsNaN(y) /\ ~Less(y, x)

Add(x, y) ==
  IF IsNaN(x) \/ IsNaN(y) THEN NaN
  ELSE IF IsInfV(x) THEN (IF IsInfV(y) /\ y.n # x.n THEN NaN ELSE x)
  ELSE IF IsInfV(y) THEN y
  ELSE IF x.n = 0 THEN y
  ELSE IF y.n = 0 THEN x
  ELSE LET e == IF x.e < y.e THEN x.e ELSE y.e
           xn == x.n * Pow10(x.e - e)
           yn == y.n * Pow10(y.e - e)
       IN Canon(xn * y.d + yn * x.d, x.d * y.d, e)

Sub(x, y) == Add(x, Neg(y))

Mul(x, y) ==
  IF IsNaN(x) \/ IsNaN(y) THEN NaN
  ELSE IF IsInfV(x) \/ IsInfV(y)
       THEN (IF Sign(x) * Sign(y) = 0 THEN NaN
             ELSE IF Sign(x) * Sign(y) > 0 THEN PInf ELSE NInf)
  ELSE Canon(x.n * y.n, x.d * y.d, x.e + y.e)

\* x / y on floats, for a denominator that is not zero.
Quot(x, y) ==
  IF IsNaN(x) \/ IsNaN(y) THEN NaN
  ELSE IF IsInfV(x) THEN (IF IsInfV(y) THEN NaN
                          ELSE IF Sign(x) * Sign(y) > 0 THEN PInf ELSE NInf)
  ELSE IF IsInfV(y) THEN Num(0)
  ELSE Canon(Sign(y) * x.n * y.d, x.d * AbsI(y.n), x.e - y.e)

\* round(x, 4): the nearest multiple of 10^-4, ties to even; the infinities
\* round to themselves.
Round4(x) ==
  IF ~IsFin(x) THEN x
  ELSE IF x.d = 1 /\ x.e >= -4 THEN x
  ELSE IF x.e < -13 THEN Num(0)
  ELSE LET k == x.e + 4
           num == IF k >= 0 THEN AbsI(x.n) * Pow10(k) ELSE AbsI(x.n)
           den == IF k >= 0 THEN x.d ELSE x.d * Pow10(-k)
           fl == num \div den
           r == num - fl * den
           q == IF 2 * r < den THEN fl
                ELSE IF 2 * r > den THEN fl + 1
                ELSE IF fl % 2 = 0 THEN fl ELSE fl + 1
       IN Canon(Sign(x) * q, 1, -4)

\* ------------------------------------------------- safe primitives

\* The zero threshold of safe_div, 1e-12.
Eps == Sci(1, -12)

\* safe_div with the zero test written <= instead of <.
safe_div_le(numerator, denominator) ==
  IF IsNa(numerator) \/ IsNa(denominator) THEN NaN
  ELSE IF LessEq(AbsV(denominator), Eps) THEN NaN
  ELSE LET result == Quot(numerator, denominator)
       IN IF IsInfV(result) THEN NaN ELSE result

safe_div(numerator, denominator) ==
  IF IsNa(numerator) \/ IsNa(denominator) THEN NaN
  ELSE IF Less(AbsV(denominator), Eps) THEN NaN
  ELSE LET result == Quot(numerator, denominator)
       IN IF IsInfV(result) THEN NaN ELSE result

\* avg without its finiteness test.
avg_nofinite(x, y) ==
  IF IsNa(x) \/ IsNa(y) THEN NaN
  ELSE Quot(Add(x, y), Num(2))

avg(x, y) ==
  IF IsNa(x) \/ IsNa(y) THEN NaN
  ELSE IF ~IsFin(x) \/ ~IsFin(y) THEN NaN
  ELSE Quot(Add(x, y), Num(2))

\* ------------------------------------------------------------ tables

(***************************************************************************)
(* A statement table (a DataFrame) is [cols, rows]: cols the sequence of    *)
(* its period columns, rows the sequence of its rows in index order, each   *)
(* row [label, v] with v a function from the periods to cell values.        *)
(***************************************************************************)
Range(f) == {f[i] : i \in DOMAIN f}

Table(cols, rows) == [cols |-> cols, rows |-> rows]

\* DataFrame.empty: an axis of length 0.
IsEmpty(df) == df.cols = <<>> \/ df.rows = <<>>

Labels(df) == {df.rows[i].label : i \in DOMAIN df.rows}

\* field_mappings, restricted to the labels the model's tables use.
field_mappings ==
  [x \in {"Total Revenue", "Operating Revenue"} |-> "TotalRevenue"] @@
  [x \in {"Gross Profit"} |-> "GrossProfit"] @@
  [x \in {"Operating Income", "EBIT"} |-> "OperatingIncome"] @@
  [x \in {"Net Income", "Net Income Common Stockholders"} |-> "NetIncome"] @@
  [x \in {"Pretax Income"} |-> "PretaxIncome"] @@
  [x \in {"Selling General And Administration"} |-> "SellingGeneralAdministrative"] @@
  [x \in {"Tax Provision"} |-> "IncomeTaxExpense"] @@
  [x \in {"Interest Expense"} |-> "InterestExpense"] @@
  [x \in {"Total Assets"} |-> "TotalAssets"] @@
  [x \in {"Current Assets"} |-> "TotalCurrentAssets"] @@
  [x \in {"Total Liabilities Net Minority Interest", "Total Liab"} |-> "TotalLiabilities"] @@
  [x \in {"Current Liabilities"} |-> "TotalCurrentLiabilities"] @@
  [x \in {"Stockholders Equity", "Total Equity"} |-> "TotalStockholderEquity"] @@
  [x \in {"Inventory"} |-> "Inventory"] @@
  [x \in {"Net PPE"} |-> "NetPPE"] @@
  [x \in {"Retained Earnings"} |-> "RetainedEarnings"] @@
  [x \in {"Accounts Receivable"} |-> "NetReceivables"] @@
  [x \in {"Operating Cash Flow"} |-> "TotalCashFromOperatingActivities"] @@
  [x \in {"Depreciation And Amortization"} |-> "Depreciation"] @@
  [x \in {"Cash Dividends Paid"} |-> "CashDividendsPaid"]

MapName(field_name) ==
  IF field_name \in DOMAIN field_mappings THEN field_mappings[field_name]
  ELSE field_name

\* The loop of normalize_field_names: rows[1..i] relabelled, a row kept only
\* if its normalized name has not been seen.
RECURSIVE NormRows(_, _)
NormRows(rows, i) ==
  IF i = 0 THEN <<>>
  ELSE LET before == NormRows(rows, i - 1)
           normalized_name == MapName(rows[i].label)
       IN IF normalized_name \in {before[j].label : j \in DOMAIN before}
          THEN before
          ELSE Append(before, [label |-> normalized_name, v |-> rows[i].v])

\* normalize_field_names keeping the last row of each normalized name.
normalize_field_names_last(df) ==
  LET idx == [i \in DOMAIN df.rows |-> i]
      kept == SelectSeq(idx, LAMBDA i :
                \A j \in DOMAIN df.rows :
                  j > i => MapName(df.rows[j].label) # MapName(df.rows[i].label))
  IN Table(df.cols,
           [k \in DOMAIN kept |->
              [label |-> MapName(df.rows[kept[k]].label), v |-> df.rows[kept[k]].v]])

normalize_field_names(df) == Table(df.cols, NormRows(df.rows, Len(df.rows)))

\* pd.to_numeric(errors='coerce') on one cell.
ToNumeric(x) == IF x.k \in {"str", "none"} THEN NaN ELSE x

coerce_numeric(df) ==
  Table(df.cols,
        [i \in DOMAIN df.rows |->
           [label |-> df.rows[i].label,
            v |-> [y \in DOMAIN df.rows[i].v |-> ToNumeric(df.rows[i].v[y])]]])

\* The first row of df with this label (labels are unique after normalizing).
RowOf(df, name) ==
  df.rows[CHOOSE i \in DOMAIN df.rows :
            /\ df.rows[i].label = name
            /\ \A j \in 1..(i - 1) : df.rows[j].label # name]

\* First non-null value of a row in column order, else the default.
RECURSIVE FirstNonNull(_, _, _)
FirstNonNull(v, cols, i) ==
  IF i > Len(cols) THEN NaN
  ELSE IF ~IsNa(v[cols[i]]) THEN v[cols[i]]
  ELSE FirstNonNull(v, cols, i + 1)

\* safe_get_field(df, [name], year_idx), default NaN.
safe_get_field(df, name, year_idx) ==
  IF name \notin Labels(df) THEN NaN
  ELSE LET value == RowOf(df, name).v
       IN IF year_idx \in Range(df.cols)
          THEN (IF ~IsNa(value[year_idx]) THEN value[year_idx] ELSE NaN)
          ELSE FirstNonNull(value, df.cols, 1)

\* -------------------------------------------------------- faults, notes

\* An exception message: the text of the f-string with its holes.
Msg(tag, ticker, n, inner) == [tag |-> tag, ticker |-> ticker, n |-> n, inner |-> inner]
NoMsg == Msg("", "", 0, "")

Raise(m) == [raised |-> TRUE, msg |-> m]
Return(v) == [raised |-> FALSE, val |-> v]

\* str(period): the period identifier as text.
YearStr(y) == <<"str", y>>

\* ------------------------------------------------------------ validate

\* Tolerance default of check_accounting_equation.
Tol == Frac(1, 100)

\* The result for one column with 'diff < tol' written for 'diff <= tol'.
EquationResult_lt(balance_df, col, tol) ==
  LET ta == safe_get_field(balance_df, "TotalAssets", col)
      tl == safe_get_field(balance_df, "TotalLiabilities", col)
      te == safe_get_field(balance_df, "TotalStockholderEquity", col)
      diff == Quot(AbsV(Sub(ta, Add(tl, te))), ta)
  IN IF Greater(ta, Num(0))
     THEN [ok |-> Less(diff, tol), delta |-> diff, assets |-> ta,
           liabilities |-> tl, equity |-> te, calculated_total |-> Add(tl, te)]
     ELSE [ok |-> FALSE, delta |-> PInf, error |-> "Total Assets is zero or missing"]

\* The result check_accounting_equation stores for one column.
EquationResult(balance_df, col, tol) ==
  LET ta == safe_get_field(balance_df, "TotalAssets", col)
      tl == safe_get_field(balance_df, "TotalLiabilities", col)
      te == safe_get_field(balance_df, "TotalStockholderEquity", col)
      diff == Quot(AbsV(Sub(ta, Add(tl, te))), ta)
  IN IF Greater(ta, Num(0))
     THEN [ok |-> LessEq(diff, tol), delta |-> diff, assets |-> ta,
           liabilities |-> tl, equity |-> te, calculated_total |-> Add(tl, te)]
     ELSE [ok |-> FALSE, delta |-> PInf, error |-> "Total Assets is zero or missing"]

\* check_accounting_equation leaving out the periods without positive assets.
check_accounting_equation_skip(balance_df, tol) ==
  [c \in {YearStr(y) : y \in {yy \in Range(balance_df.cols) :
                                 Greater(safe_get_field(balance_df, "TotalAssets", yy), Num(0))}} |->
     EquationResult(balance_df, c[2], tol)]

check_accounting_equation(balance_df, tol) ==
  [c \in {YearStr(y) : y \in Range(balance_df.cols)} |->
     EquationResult(balance_df, c[2], tol)]

SectionOrder == <<"income", "balance", "cashflow">>

RECURSIVE MissingIn(_, _, _, _)
MissingIn(section, df, fields, i) ==
  IF i > Len(fields) THEN <<>>
  ELSE (IF fields[i] \notin Labels(df) THEN << <<section, fields[i]>> >> ELSE <<>>)
       \o MissingIn(section, df, fields, i + 1)

AllOf(section, fields) == [i \in DOMAIN fields |-> <<section, fields[i]>>]

RECURSIVE CollectFrom(_, _, _)
CollectFrom(df_map, needed, k) ==
  IF k > Len(SectionOrder) THEN <<>>
  ELSE LET section == SectionOrder[k]
       IN (IF section \notin DOMAIN needed THEN <<>>
           ELSE IF section \notin DOMAIN df_map THEN AllOf(section, needed[section])
           ELSE MissingIn(section, df_map[section], needed[section], 1))
          \o CollectFrom(df_map, needed, k + 1)

\* collect_missing returning its list in reverse.
collect_missing_rev(df_map, needed) ==
  LET missing == CollectFrom(df_map, needed, 1)
  IN [i \in DOMAIN missing |-> missing[Len(missing) + 1 - i]]

\* collect_missing: the "section:field" strings, as pairs <<section, field>>.
collect_missing(df_map, needed) == CollectFrom(df_map, needed, 1)

\* -------------------------------------------------------------- fetch

(***************************************************************************)
(* The statement provider (yfinance) as the program sees it:                *)
(*   mode    "tables" or "raise" (reading a statement raises),              *)
(*   income, balance, cashflow   the raw tables,                            *)
(*   info    a map from the keys present to numbers or None,                *)
(*   currency  the 'currency' entry of info, "" when absent,                *)
(*   ts      the monthly price history used by calculate_alpha.             *)
(***************************************************************************)
get_financials(p, ticker) ==
  IF p.mode = "raise"
  THEN Raise(Msg("Failed to fetch data for", ticker, 0, "provider fault"))
  ELSE IF IsEmpty(p.income) \/ IsEmpty(p.balance) \/ IsEmpty(p.cashflow)
  THEN Raise(Msg("Failed to fetch data for", ticker, 0,
                 "No financial data available for ticker"))
  ELSE Return([income |-> p.income, balance |-> p.balance,
               cashflow |-> p.cashflow, info |-> p.info, currency |-> p.currency])

\* ---------------------------------------------------------- normalize

SetMax(S) == CHOOSE x \in S : \A y \in S : y <= x

CommonYears(fd) ==
  Range(fd.income.cols) \cap Range(fd.balance.cols) \cap Range(fd.cashflow.cols)

\* sorted(common_years)[:2]: the two oldest, ascending.
TwoMostRecent_asc(common_years) ==
  LET y1 == CHOOSE x \in common_years : \A y \in common_years : x <= y
      rest == common_years \ {y1}
  IN <<y1, CHOOSE x \in rest : \A y \in rest : x <= y>>

\* sorted(common_years, reverse=True)[:2]
TwoMostRecent(common_years) ==
  LET y1 == SetMax(common_years)
  IN <<y1, SetMax(common_years \ {y1})>>

\* select_two_years asking for more than two common periods.
select_two_years_le2(financial_data) ==
  LET common_years == CommonYears(financial_data)
  IN IF Cardinality(common_years) <= 2
     THEN Raise(Msg("Insufficient common years", "", Cardinality(common_years), "found"))
     ELSE Return(
       [income |-> coerce_numeric(normalize_field_names(financial_data.income)),
        balance |-> coerce_numeric(normalize_field_names(financial_data.balance)),
        cashflow |-> coerce_numeric(normalize_field_names(financial_data.cashflow)),
        info |-> financial_data.info,
        years |-> TwoMostRecent(common_years),
        currency |-> IF financial_data.currency = "" THEN "USD"
                     ELSE financial_data.currency])

select_two_years(financial_data) ==
  LET common_years == CommonYears(financial_data)
  IN IF Cardinality(common_years) < 2
     THEN Raise(Msg("Insufficient common years", "", Cardinality(common_years), "found"))
     ELSE Return(
       [income |-> coerce_numeric(normalize_field_names(financial_data.income)),
        balance |-> coerce_numeric(normalize_field_names(financial_data.balance)),
        cashflow |-> coerce_numeric(normalize_field_names(financial_data.cashflow)),
        info |-> financial_data.info,
        years |-> TwoMostRecent(common_years),
        currency |-> IF financial_data.currency = "" THEN "USD"
                     ELSE financial_data.currency])

\* ------------------------------------------------------------ compute

\* info.get(key, default)
InfoGet(info, key, default) == IF key \in DOMAIN info THEN info[key] ELSE default

\* Python truthiness of a number or None.
Truthy(x) == ~IsNone(x) /\ x # Num(0)

\* Minimum number of common monthly observations calculate_alpha asks for.
MinAlphaMonths == 12

\* calculate_alpha without its test of the number of common months.
calculate_alpha_nomin(ts, beta) ==
  IF ts.mode = "raise" THEN None
  ELSE IF ts.mode = "empty" THEN None
  ELSE LET alpha_monthly == Sub(ts.stock_mean, Mul(beta, ts.spy_mean))
           alpha_annual == Mul(alpha_monthly, Num(12))
       IN IF ~IsNa(alpha_annual) THEN alpha_annual ELSE None

\* calculate_alpha(ticker, beta), beta given: None when it fails.
calculate_alpha(ts, beta) ==
  IF ts.mode = "raise" THEN None
  ELSE IF ts.mode = "empty" THEN None
  ELSE IF ts.common < MinAlphaMonths THEN None
  ELSE LET alpha_monthly == Sub(ts.stock_mean, Mul(beta, ts.spy_mean))
           alpha_annual == Mul(alpha_monthly, Num(12))
       IN IF ~IsNa(alpha_annual) THEN alpha_annual ELSE None

\* A leaf that is blanked whatever its value.
Leaf_none(x) == None

\* A leaf reported without rounding.
Leaf_raw(x) == IF ~IsNa(x) THEN x ELSE None

\* round(x, 4) if not pd.isna(x) else None
Leaf(x) == IF ~IsNa(x) THEN Round4(x) ELSE None

\* A signal that counts -1 when its condition fails.
Flag_signed(b) == IF b THEN 1 ELSE -1

\* 1 if <condition> else 0
Flag(b) == IF b THEN 1 ELSE 0

needed_fields ==
  [income |-> <<"TotalRevenue", "GrossProfit", "OperatingIncome", "NetIncome",
                "SellingGeneralAdministrative", "IncomeTaxExpense", "InterestExpense">>,
   balance |-> <<"TotalAssets", "TotalLiabilities", "TotalStockholderEquity",
                 "TotalCurrentAssets", "TotalCurrentLiabilities", "Inventory",
                 "NetPPE", "RetainedEarnings", "NetReceivables">>,
   cashflow |-> <<"TotalCashFromOperatingActivities", "Depreciation",
                  "CashDividendsPaid">>]

BeneishOrder == <<"DSRI", "GMI", "AQI", "SGI", "DEPI", "SGAI", "LVGI", "TATA">>

\* A reason string: None, or a prefix with the names or the message it embeds.
Reason(kind, names, msg) == [kind |-> kind, names |-> names, msg |-> msg]
NoReason == Reason("None", <<>>, NoMsg)

\* The fixed reason of an unknown Altman composite.
AltmanReason ==
  Reason("insufficient_fields: missing",
         <<"working capital", "retained earnings", "EBIT", "equity", "revenue">>, NoMsg)

Note(kind, section, field, msg) ==
  [kind |-> kind, section |-> section, field |-> field, msg |-> msg]

\* [k for k, v in beneish_components.items() if pd.isna(v)], reporting only
\* the first missing component.
missing_components_first(beneish_components) ==
  LET all == SelectSeq(BeneishOrder, LAMBDA c : IsNa(beneish_components[c]))
  IN IF all = <<>> THEN <<>> ELSE <<all[1]>>

\* [k for k, v in beneish_components.items() if pd.isna(v)]
missing_components_of(beneish_components) ==
  SelectSeq(BeneishOrder, LAMBDA c : IsNa(beneish_components[c]))

\* all(...) written for any(...).
altman_all_missing(altman_components) ==
  \A i \in DOMAIN altman_components : IsNa(altman_components[i])

\* any(pd.isna(comp) for comp in altman_components)
altman_any_missing(altman_components) ==
  \E i \in DOMAIN altman_components : IsNa(altman_components[i])

\* A comparison with an operand None raises TypeError.
CmpRaises(x, y) == IsNone(x) \/ IsNone(y)

TypeErrorMsg == Msg("'<=' not supported between instances of", "", 0, "NoneType")

\* The one value of a set that binds names to the values of an assignment sequence.
Only(S) == CHOOSE x \in S : TRUE

\* The body of compute_all's try block after select_two_years returned data:
\* each name is bound to its value once, in the order of the assignments,
\* grouped by what they are computed from.
ComputeBody(ticker, data, ts) ==
  \* the statements, the info snapshot and the two periods (compute.py:95-101)
  Only({
    \* the statement fields and market data read (compute.py:103-144, 277, 283-292)
    Only({
      \* values computed from the fields alone
      Only({
        \* values computed from those
        Only({
          \* composites of the first order
          Only({
            \* the composites and their reasons
            Only({
              \* the Altman composite
              Only({
                IF CmpRaises(shares, shares) THEN Raise(TypeErrorMsg)
                ELSE Return(
                  [ticker |-> ticker,
                   currency |-> data.currency,
                   years |-> <<YearStr(y_t), YearStr(y_t1)>>,
                   validation |-> validation,
                   ratios |-> [current |-> Leaf(current_ratio), quick |-> Leaf(quick_ratio),
                               debt_to_equity |-> Leaf(debt_to_equity), roe |-> Leaf(roe),
                               roa |-> Leaf(roa), roe_adjusted |-> Leaf(roe_adjusted)],
                   dupont |->
                     [roe_3step |-> [npm |-> Leaf(npm), asset_turnover |-> Leaf(asset_turnover),
                                     equity_multiplier |-> Leaf(equity_multiplier),
                                     roe |-> Leaf(roe_dupont_3)],
                      roe_5step |-> [tax_burden |-> Leaf(tax_burden),
                                     interest_burden |-> Leaf(interest_burden),
                                     operating_margin |-> Leaf(operating_margin),
                                     asset_turnover |-> Leaf(asset_turnover),
                                     equity_multiplier |-> Leaf(equity_multiplier),
                                     roe |-> Leaf(roe_dupont_5)]],
                   piotroski |-> [score |-> Num(piotroski_score),
                                  fscore_display |-> [fmt |-> "{:.2f}/9", score |-> Num(piotroski_score)],
                                  signals |-> piotroski_signals],
                   beneish |-> [m |-> IF ~IsNone(beneish_m_score) THEN Round4(beneish_m_score) ELSE None,
                                reason |-> beneish_reason,
                                components |-> [c \in Range(BeneishOrder) |-> Leaf(beneish_components[c])]],
                   altman |-> [z |-> IF ~IsNone(altman_z_score) THEN Round4(altman_z_score) ELSE None,
                               z_prime |-> None,
                               reason |-> altman_reason,
                               components |-> [a |-> Leaf(altman_a), b |-> Leaf(altman_b),
                                               c |-> Leaf(altman_c), d |-> Leaf(altman_d),
                                               e |-> Leaf(altman_e)]],
                   price_based |-> [pe |-> Leaf(pe), pb |-> Leaf(pb), ps |-> Leaf(ps), peg |-> Leaf(peg)],
                   dividends |-> [dividend_yield |-> Leaf(dividend_yield),
                                  dividend_payout_ratio |-> Leaf(dividend_payout_ratio),
                                  dividend_coverage_ratio |-> Leaf(dividend_coverage_ratio)],
                   alpha |-> IF ~IsNone(alpha) /\ ~IsNa(alpha) THEN Round4(alpha) ELSE None,
                   notes |-> notes])
                :
                altman_z_score \in {IF altman_missing THEN None
                     ELSE Add(Add(Add(Add(Mul(Sci(12, -1), altman_a), Mul(Sci(14, -1), altman_b)),
                            Mul(Sci(33, -1), altman_c)), Mul(Sci(6, -1), altman_d)),
                            Mul(Num(1), altman_e))},
                altman_reason \in {IF altman_missing THEN AltmanReason ELSE NoReason}
              })
              :
              roe_adjusted \in {roe_dupont_3},
              peg \in {IF ~IsNa(pe) /\ ~IsNa(growth_eps) /\ Greater(growth_eps, Num(0))
                   THEN safe_div(pe, Mul(Num(100), growth_eps)) ELSE NaN},
              beneish_m_score \in {IF missing_components # <<>> THEN None
                   ELSE Sub(Add(Sub(Add(Add(Add(Add(Add(Sci(-484, -2),
                          Mul(Sci(92, -2), DSRI)), Mul(Sci(528, -3), GMI)),
                          Mul(Sci(404, -3), AQI)), Mul(Sci(892, -3), SGI)),
                          Mul(Sci(115, -3), DEPI)), Mul(Sci(172, -3), SGAI)),
                          Mul(Sci(4679, -3), TATA)), Mul(Sci(327, -3), LVGI))},
              beneish_reason \in {IF missing_components # <<>>
                   THEN Reason("insufficient_fields:", missing_components, NoMsg)
                   ELSE NoReason},
              altman_missing \in {altman_any_missing(altman_components)}
            })
            :
            roe_dupont_3 \in {Mul(Mul(npm, asset_turnover), equity_multiplier)},
            roe_dupont_5 \in {Mul(Mul(Mul(Mul(tax_burden, interest_burden), operating_margin),
                 asset_turnover), equity_multiplier)},
            growth_eps \in {IF ~IsNa(eps_t1) /\ Greater(eps_t1, Num(0))
                 THEN safe_div(Sub(eps_t, eps_t1), eps_t1) ELSE NaN},
            pe \in {safe_div(price, eps_t)},
            pb \in {safe_div(price, bps_t)},
            ps \in {safe_div(price, sps_t)},
            dividend_yield \in {safe_div(div_ps, price)},
            dividend_payout_ratio \in {IF ~IsNa(eps_t) /\ Greater(eps_t, Num(0))
                 THEN safe_div(div_ps, eps_t) ELSE NaN},
            dividend_coverage_ratio \in {IF ~IsNa(div_ps) /\ Greater(div_ps, Num(0))
                 THEN safe_div(eps_t, div_ps) ELSE NaN},
            piotroski_score \in {piotroski_signals.F1 + piotroski_signals.F2 + piotroski_signals.F3
                 + piotroski_signals.F4 + piotroski_signals.F5 + piotroski_signals.F6
                 + piotroski_signals.F7 + piotroski_signals.F8 + piotroski_signals.F9},
            missing_components \in {missing_components_of(beneish_components)},
            altman_components \in {<<altman_a, altman_b, altman_c, altman_d, altman_e>>}
          })
          :
          roe \in {safe_div(NetIncome_t, avg_equity)},
          roa \in {safe_div(NetIncome_t, avg_assets)},
          asset_turnover \in {safe_div(TotalRevenue_t, avg_assets)},
          eps_t \in {IF sharesPos THEN safe_div(NetIncome_t, shares) ELSE NaN},
          eps_t1 \in {IF sharesPos THEN safe_div(NetIncome_t1, shares) ELSE NaN},
          bps_t \in {IF sharesPos THEN safe_div(TotalStockholderEquity_t, shares) ELSE book_value},
          sps_t \in {IF sharesPos THEN safe_div(TotalRevenue_t, shares) ELSE NaN},
          div_ps \in {IF ~IsNa(dividend_rate) THEN dividend_rate
               ELSE IF ~IsNa(CashDividendsPaid_t) /\ sharesPos
               THEN safe_div(Neg(CashDividendsPaid_t), shares) ELSE NaN},
          piotroski_signals \in {[F1 |-> Flag(Greater(ROA_t, Num(0))),
               F2 |-> Flag(Greater(CFO_t, Num(0))),
               F3 |-> Flag(Greater(ROA_t, ROA_t1)),
               F4 |-> Flag(Greater(CFO_t, NetIncome_t)),
               F5 |-> Flag(Less(safe_div(TotalLiabilities_t, TotalAssets_t),
                                safe_div(TotalLiabilities_t1, TotalAssets_t1))),
               F6 |-> Flag(Greater(safe_div(TotalCurrentAssets_t, TotalCurrentLiabilities_t),
                                   safe_div(TotalCurrentAssets_t1, TotalCurrentLiabilities_t1))),
               F7 |-> Flag(LessEq(shares, shares)),
               F8 |-> Flag(Greater(safe_div(GrossProfit_t, TotalRevenue_t),
                                   safe_div(GrossProfit_t1, TotalRevenue_t1))),
               F9 |-> Flag(Greater(safe_div(TotalRevenue_t, TotalAssets_t),
                                   safe_div(TotalRevenue_t1, TotalAssets_t1)))]},
          beneish_components \in {[DSRI |-> DSRI, GMI |-> GMI, AQI |-> AQI, SGI |-> SGI,
               DEPI |-> DEPI, SGAI |-> SGAI, LVGI |-> LVGI, TATA |-> TATA]},
          altman_a \in {safe_div(working_capital, TotalAssets_t)},
          altman_c \in {safe_div(ebit, TotalAssets_t)},
          alpha \in {calculate_alpha(ts, beta)}
        })
        :
        avg_assets \in {avg(TotalAssets_t, TotalAssets_t1)},
        avg_equity \in {avg(TotalStockholderEquity_t, TotalStockholderEquity_t1)},
        current_ratio \in {safe_div(TotalCurrentAssets_t, TotalCurrentLiabilities_t)},
        quick_ratio \in {safe_div(Sub(TotalCurrentAssets_t, Inventory_t), TotalCurrentLiabilities_t)},
        debt_to_equity \in {safe_div(TotalLiabilities_t, TotalStockholderEquity_t)},
        npm \in {safe_div(NetIncome_t, TotalRevenue_t)},
        equity_multiplier \in {safe_div(TotalAssets_t, TotalStockholderEquity_t)},
        tax_burden \in {IF ~IsNa(PretaxIncome_t) /\ PretaxIncome_t # Num(0)
             THEN safe_div(NetIncome_t, PretaxIncome_t) ELSE NaN},
        interest_burden \in {IF ~IsNa(OperatingIncome_t) /\ OperatingIncome_t # Num(0)
             THEN safe_div(PretaxIncome_t, OperatingIncome_t) ELSE NaN},
        operating_margin \in {safe_div(OperatingIncome_t, TotalRevenue_t)},
        sharesPos \in {~IsNa(shares) /\ Greater(shares, Num(0))},
        ROA_t \in {safe_div(NetIncome_t, TotalAssets_t)},
        ROA_t1 \in {safe_div(NetIncome_t1, TotalAssets_t1)},
        CFO_t \in {TotalCashFromOperatingActivities_t},
        DSRI \in {safe_div(safe_div(NetReceivables_t, TotalRevenue_t),
             safe_div(NetReceivables_t1, TotalRevenue_t1))},
        GMI \in {safe_div(safe_div(GrossProfit_t1, TotalRevenue_t1),
             safe_div(GrossProfit_t, TotalRevenue_t))},
        AQI \in {safe_div(
             Sub(Num(1), safe_div(Add(TotalCurrentAssets_t, NetPPE_t), TotalAssets_t)),
             Sub(Num(1), safe_div(Add(TotalCurrentAssets_t1, NetPPE_t1), TotalAssets_t1)))},
        SGI \in {safe_div(TotalRevenue_t, TotalRevenue_t1)},
        DEPI \in {safe_div(safe_div(Depreciation_t1, Add(Depreciation_t1, NetPPE_t1)),
             safe_div(Depreciation_t, Add(Depreciation_t, NetPPE_t)))},
        SGAI \in {safe_div(safe_div(SellingGeneralAdministrative_t, TotalRevenue_t),
             safe_div(SellingGeneralAdministrative_t1, TotalRevenue_t1))},
        LVGI \in {safe_div(safe_div(TotalLiabilities_t, TotalAssets_t),
             safe_div(TotalLiabilities_t1, TotalAssets_t1))},
        TATA \in {safe_div(Sub(OperatingIncome_t, TotalCashFromOperatingActivities_t),
             TotalAssets_t)},
        working_capital \in {Sub(TotalCurrentAssets_t, TotalCurrentLiabilities_t)},
        ebit \in {OperatingIncome_t},
        altman_b \in {safe_div(retained_earnings, TotalAssets_t)},
        altman_d \in {safe_div(TotalStockholderEquity_t, TotalLiabilities_t)},
        altman_e \in {safe_div(TotalRevenue_t, TotalAssets_t)},
        beta \in {IF IsNa(beta0) THEN Num(1) ELSE beta0},
        notes \in {[i \in DOMAIN missing_fields |->
             Note("Missing field:", missing_fields[i][1], missing_fields[i][2], NoMsg)]}
      })
      :
      TotalRevenue_t \in {safe_get_field(income, "TotalRevenue", y_t)},
      TotalRevenue_t1 \in {safe_get_field(income, "TotalRevenue", y_t1)},
      GrossProfit_t \in {safe_get_field(income, "GrossProfit", y_t)},
      GrossProfit_t1 \in {safe_get_field(income, "GrossProfit", y_t1)},
      OperatingIncome_t \in {safe_get_field(income, "OperatingIncome", y_t)},
      NetIncome_t \in {safe_get_field(income, "NetIncome", y_t)},
      NetIncome_t1 \in {safe_get_field(income, "NetIncome", y_t1)},
      PretaxIncome_t \in {safe_get_field(income, "PretaxIncome", y_t)},
      SellingGeneralAdministrative_t \in {safe_get_field(income, "SellingGeneralAdministrative", y_t)},
      SellingGeneralAdministrative_t1 \in {safe_get_field(income, "SellingGeneralAdministrative", y_t1)},
      TotalAssets_t \in {safe_get_field(balance, "TotalAssets", y_t)},
      TotalAssets_t1 \in {safe_get_field(balance, "TotalAssets", y_t1)},
      TotalLiabilities_t \in {safe_get_field(balance, "TotalLiabilities", y_t)},
      TotalLiabilities_t1 \in {safe_get_field(balance, "TotalLiabilities", y_t1)},
      TotalStockholderEquity_t \in {safe_get_field(balance, "TotalStockholderEquity", y_t)},
      TotalStockholderEquity_t1 \in {safe_get_field(balance, "TotalStockholderEquity", y_t1)},
      TotalCurrentAssets_t \in {safe_get_field(balance, "TotalCurrentAssets", y_t)},
      TotalCurrentAssets_t1 \in {safe_get_field(balance, "TotalCurrentAssets", y_t1)},
      TotalCurrentLiabilities_t \in {safe_get_field(balance, "TotalCurrentLiabilities", y_t)},
      TotalCurrentLiabilities_t1 \in {safe_get_field(balance, "TotalCurrentLiabilities", y_t1)},
      Inventory_t \in {safe_get_field(balance, "Inventory", y_t)},
      NetPPE_t \in {safe_get_field(balance, "NetPPE", y_t)},
      NetPPE_t1 \in {safe_get_field(balance, "NetPPE", y_t1)},
      NetReceivables_t \in {safe_get_field(balance, "NetReceivables", y_t)},
      NetReceivables_t1 \in {safe_get_field(balance, "NetReceivables", y_t1)},
      retained_earnings \in {safe_get_field(balance, "RetainedEarnings", y_t)},
      TotalCashFromOperatingActivities_t \in {safe_get_field(cashflow, "TotalCashFromOperatingActivities", y_t)},
      Depreciation_t \in {safe_get_field(cashflow, "Depreciation", y_t)},
      Depreciation_t1 \in {safe_get_field(cashflow, "Depreciation", y_t1)},
      CashDividendsPaid_t \in {safe_get_field(cashflow, "CashDividendsPaid", y_t)},
      shares \in {InfoGet(info, "sharesOutstanding", NaN)},
      price \in {IF Truthy(InfoGet(info, "currentPrice", None))
           THEN InfoGet(info, "currentPrice", None)
           ELSE InfoGet(info, "regularMarketPrice", NaN)},
      dividend_rate \in {InfoGet(info, "dividendRate", NaN)},
      book_value \in {InfoGet(info, "bookValue", NaN)},
      beta0 \in {InfoGet(info, "beta", Num(1))},
      validation \in {check_accounting_equation(balance, Tol)},
      missing_fields \in {collect_missing([income |-> income, balance |-> balance, cashflow |-> cashflow],
           needed_fields)}
    })
    :
    income \in {data.income},
    balance \in {data.balance},
    cashflow \in {data.cashflow},
    info \in {data.info},
    y_t \in {data.years[1]},
    y_t1 \in {data.years[2]}
  })

EmptyMap == <<>>

\* The except branch leaving the notes empty.
ErrorDocument_nonote(ticker, e) ==
  [ticker |-> ticker, error |-> e, currency |-> "Unknown", years |-> <<>>,
   validation |-> EmptyMap, ratios |-> EmptyMap, dupont |-> EmptyMap,
   piotroski |-> [score |-> None, fscore_display |-> [fmt |-> "N/A", score |-> None],
                  signals |-> EmptyMap],
   beneish |-> [m |-> None, reason |-> Reason("computation_error:", <<>>, e),
                components |-> EmptyMap],
   altman |-> [z |-> None, z_prime |-> None,
               reason |-> Reason("computation_error:", <<>>, e),
               components |-> EmptyMap],
   price_based |-> EmptyMap, dividends |-> EmptyMap, alpha |-> None,
   notes |-> <<>>]

\* The document of compute_all's except branch.
ErrorDocument(ticker, e) ==
  [ticker |-> ticker,
   error |-> e,
   currency |-> "Unknown",
   years |-> <<>>,
   validation |-> EmptyMap,
   ratios |-> EmptyMap,
   dupont |-> EmptyMap,
   piotroski |-> [score |-> None, fscore_display |-> [fmt |-> "N/A", score |-> None],
                  signals |-> EmptyMap],
   beneish |-> [m |-> None, reason |-> Reason("computation_error:", <<>>, e),
                components |-> EmptyMap],
   altman |-> [z |-> None, z_prime |-> None,
               reason |-> Reason("computation_error:", <<>>, e),
               components |-> EmptyMap],
   price_based |-> EmptyMap,
   dividends |-> EmptyMap,
   alpha |-> None,
   notes |-> << Note("Error:", "", "", e) >>]

\* The try block of compute_all: the first fault ends it.
TryBody(p, ticker) ==
  LET raw_data == get_financials(p, ticker)
      data == select_two_years(raw_data.val)
  IN IF raw_data.raised THEN raw_data
     ELSE IF data.raised THEN data
     ELSE ComputeBody(ticker, data.val, p.ts)

\* compute_all without its except branch: the fault reaches the caller.
compute_all_nocatch(p, ticker) == TryBody(p, ticker)

\* compute_all: what the caller gets, a returned document or a raised fault.
compute_all(p, ticker) ==
  LET r == TryBody(p, ticker)
  IN IF r.raised THEN Return(ErrorDocument(ticker, r.msg)) ELSE r

\* ------------------------------------------------- the provider's data

Periods == <<2023, 2022, 2021>>

Row(label, a, b, c) ==
  [label |-> label, v |-> (2023 :> Num(a)) @@ (2022 :> Num(b)) @@ (2021 :> Num(c))]

Row2(label, a, b) == [label |-> label, v |-> (2023 :> Num(a)) @@ (2022 :> Num(b))]

\* A company whose statements carry every line item the pipeline reads; the
\* income statement reports revenue under two synonymous labels.
BaseIncome ==
  Table(Periods,
    << Row("Total Revenue", 1000, 800, 500),
       Row("Operating Revenue", 500, 400, 250),
       Row("Gross Profit", 400, 300, 200),
       Row("Operating Income", 200, 160, 100),
       Row("Net Income", 100, 64, 40),
       Row("Pretax Income", 125, 80, 50),
       Row("Selling General And Administration", 100, 80, 50),
       Row("Tax Provision", 25, 16, 10),
       Row("Interest Expense", 20, 16, 10) >>)

BaseBalance ==
  Table(Periods,
    << Row("Total Assets", 2000, 1600, 1000),
       Row("Total Liabilities Net Minority Interest", 800, 800, 500),
       Row("Stockholders Equity", 1200, 800, 480),
       Row("Current Assets", 500, 400, 250),
       Row("Current Liabilities", 250, 250, 125),
       Row("Inventory", 100, 80, 50),
       Row("Net PPE", 1000, 800, 500),
       Row("Retained Earnings", 400, 300, 200),
       Row("Accounts Receivable", 100, 64, 40) >>)

BaseCashflow ==
  Table(Periods,
    << Row("Operating Cash Flow", 150, 100, 50),
       Row("Depreciation And Amortization", 50, 40, 25),
       Row("Cash Dividends Paid", -20, -16, -10) >>)

BaseInfo ==
  [sharesOutstanding |-> Num(100), currentPrice |-> Num(20),
   regularMarketPrice |-> Num(16), dividendRate |-> Frac(1, 4),
   bookValue |-> Num(10), beta |-> Frac(5, 4)]

BaseTs == [mode |-> "data", common |-> 35, stock_mean |-> Sci(2, -2), spy_mean |-> Sci(1, -2)]

BaseProvider ==
  [mode |-> "tables", income |-> BaseIncome, balance |-> BaseBalance,
   cashflow |-> BaseCashflow, info |-> BaseInfo, currency |-> "USD", ts |-> BaseTs]

\* A company with two periods of income and cash flow, whose statements name
\* most line items by labels the synonym table does not know, and whose info
\* carries no currency.
SparseProvider ==
  [mode |-> "tables",
   income |-> Table(<<2023, 2022>>, << Row2("Turnover", 1000, 800),
                                       Row2("Net Income", 100, 64) >>),
   balance |-> Table(Periods, << Row("Total Assets", 2000, 1600, 1000),
                                 Row("Total Equity", 1200, 800, 480) >>),
   cashflow |-> Table(<<2023, 2022>>, << Row2("Free Cash Flow", 150, 100),
                                         Row2("Capital Expenditure", -60, -50) >>),
   info |-> BaseInfo, currency |-> "", ts |-> BaseTs]

Statements == {"income", "balance", "cashflow"}
Tickers == {"AAPL"}

\* What a statement cell may hold instead of the reported number.
CellValues == {Str, Num(0)}
\* The periods whose cells may do so.
CellPeriods == {2023, 2022}
\* What an info entry may hold instead of the reported number.
InfoValues == {None, Num(0)}

\* How many times the provider's data may depart from a base company.
MaxEdits == 1

RemoveAt(seq, i) == SubSeq(seq, 1, i - 1) \o SubSeq(seq, i + 1, Len(seq))

Restrict(f, S) == [x \in S |-> f[x]]

\* ------------------------------------------------------- test imports

\* The names bound at module level in compute.py.
ComputeNames ==
  {"np", "pd", "Dict", "Any", "List", "yf", "get_financials", "select_two_years",
   "safe_get_field", "safe_div", "avg", "check_accounting_equation",
   "collect_missing", "calculate_alpha", "compute_all"}

\* from finance_clean.compute import <names>: the first missing name raises.
RECURSIVE ImportFrom(_, _)
ImportFrom(names, i) ==
  IF i > Len(names) THEN "ok"
  ELSE IF names[i] \notin ComputeNames THEN "ImportError"
  ELSE ImportFrom(names, i + 1)

\* The import line of tests/test_formulas.py.
TestFormulasImports == <<"compute_all", "avg", "pct_change">>

\* ---------------------------------------------------------------- state

VARIABLES
  prov,     \* what the statement provider answers
  nEdits,   \* departures of prov from its base company so far
  req,      \* the ticker of the last compute_all call, "" before any
  result,   \* what that call gave its caller: Return(document) or Raise(fault)
  call,     \* a call of a primitive: [op, x, y, z, r], op = "none" before it
  cache,    \* the lru_cache of _cached_metrics: its entries, least recently used first
  today,    \* the calendar day date.today() gives
  resp,     \* the answer to the last /metrics request
  run       \* the last run of the command line: its arguments, output and exit status

vars == <<prov, nEdits, req, result, call, cache, today, resp, run>>

NoResult == [raised |-> FALSE, val |-> EmptyMap]
NoCall ==
  [op |-> "none", x |-> None, y |-> None, z |-> None, r |-> None, status |-> ""]
NoResp ==
  [status |-> 0, body |-> EmptyMap, detail |-> NoMsg, ticker |-> "",
   force_refresh |-> FALSE, computed |-> FALSE]
NoRun == [exit |-> -1]

\* The service has answered nothing and the command line has not run.
Idle ==
  /\ cache = <<>>
  /\ today = 1
  /\ resp = NoResp
  /\ run = NoRun

Init ==
  /\ Idle
  /\ prov \in {BaseProvider, SparseProvider}
  /\ nEdits = 0
  /\ req = ""
  /\ result = NoResult
  /\ call = NoCall

CanEdit == req = "" /\ nEdits < MaxEdits

Edit(p) ==
  /\ CanEdit
  /\ prov' = p
  /\ nEdits' = nEdits + 1
  /\ UNCHANGED <<req, result, call, cache, today, resp, run>>

\* Reading the statements raises.
ProviderRaises == prov.mode = "tables" /\ Edit([prov EXCEPT !.mode = "raise"])

\* The provider has no data for a statement.
ClearTable ==
  \E s \in Statements :
    /\ ~IsEmpty(prov[s])
    /\ Edit([prov EXCEPT ![s] = Table(<<>>, <<>>)])

\* A statement lacks one period.
DropColumn ==
  \E s \in Statements : \E i \in DOMAIN prov[s].cols :
    LET cols == RemoveAt(prov[s].cols, i)
    IN Edit([prov EXCEPT ![s] =
               Table(cols, [r \in DOMAIN prov[s].rows |->
                              [label |-> prov[s].rows[r].label,
                               v |-> Restrict(prov[s].rows[r].v, Range(cols))]])])

\* A statement lacks one line item.
DropRow ==
  \E s \in Statements : \E i \in DOMAIN prov[s].rows :
    Edit([prov EXCEPT ![s].rows = RemoveAt(prov[s].rows, i)])

\* A cell holds text or zero.
SetCell ==
  \E s \in Statements : \E i \in DOMAIN prov[s].rows :
    \E y \in Range(prov[s].cols) \cap CellPeriods : \E x \in CellValues :
      /\ prov[s].rows[i].v[y] # x
      /\ Edit([prov EXCEPT ![s].rows[i].v[y] = x])

\* An info entry is absent.
DropInfo ==
  \E key \in DOMAIN prov.info :
    Edit([prov EXCEPT !.info = Restrict(prov.info, DOMAIN prov.info \ {key})])

\* An info entry is null or zero.
SetInfo ==
  \E key \in DOMAIN prov.info : \E x \in InfoValues :
    /\ prov.info[key] # x
    /\ Edit([prov EXCEPT !.info[key] = x])

\* The price history is missing, too short, or reading it raises.
SetHistory ==
  \E m \in {[prov.ts EXCEPT !.mode = "raise"], [prov.ts EXCEPT !.mode = "empty"],
            [prov.ts EXCEPT !.common = MinAlphaMonths - 1],
            [prov.ts EXCEPT !.common = MinAlphaMonths]} :
    /\ prov.ts # m
    /\ Edit([prov EXCEPT !.ts = m])

\* compute_all(ticker)
ComputeAll ==
  \E ticker \in Tickers :
    /\ req = ""
    /\ req' = ticker
    /\ result' = compute_all(prov, ticker)
    /\ UNCHANGED <<prov, nEdits, call, cache, today, resp, run>>

Next ==
  \/ ProviderRaises
  \/ ClearTable
  \/ DropColumn
  \/ DropRow
  \/ SetCell
  \/ DropInfo
  \/ SetInfo
  \/ SetHistory
  \/ ComputeAll

Spec == Init /\ [][Next]_vars

\* ------------------------------------------- the primitives on their own

\* Largest mantissa of the operands tried.
MaxMant == 3

Mantissas == (0 - MaxMant)..MaxMant

\* Operands around 1 (scale 0) or around the zero threshold (scale -12),
\* with NaN, None and the infinities.
Operands(scale) ==
  {Sci(m, scale) : m \in Mantissas} \cup {Sci(m, scale - 1) : m \in Mantissas}
    \cup {NaN, None, PInf, NInf}

InitArith ==
  /\ Idle
  /\ prov = BaseProvider
  /\ nEdits = 0
  /\ req = ""
  /\ result = NoResult
  /\ \E scale \in {0, -12} : \E x, y \in Operands(scale) :
       call = [NoCall EXCEPT !.x = x, !.y = y]

CallSafeDiv ==
  /\ call.op = "none"
  /\ call' = [call EXCEPT !.op = "safe_div", !.r = safe_div(call.x, call.y)]
  /\ UNCHANGED <<prov, nEdits, req, result, cache, today, resp, run>>

CallAvg ==
  /\ call.op = "none"
  /\ call' = [call EXCEPT !.op = "avg", !.r = avg(call.x, call.y)]
  /\ UNCHANGED <<prov, nEdits, req, result, cache, today, resp, run>>

\* Loading tests/test_formulas.py runs its import of the compute module.
LoadTestFormulas ==
  /\ call.op = "none"
  /\ call' = [call EXCEPT !.op = "import", !.status = ImportFrom(TestFormulasImports, 1)]
  /\ UNCHANGED <<prov, nEdits, req, result, cache, today, resp, run>>

\* A balance sheet of one period with the three totals of the equation.
OnePeriodBalance(ta, tl, te) ==
  Table(<<2023>>,
        <<[label |-> "TotalAssets", v |-> (2023 :> ta)],
          [label |-> "TotalLiabilities", v |-> (2023 :> tl)],
          [label |-> "TotalStockholderEquity", v |-> (2023 :> te)]>>)

\* Equity that balances assets x against liabilities y, that misses by 1% or
\* by 2% of the assets, or that is unknown.
EquityFor(x, y) ==
  {Sub(x, y), Sub(Sub(x, y), Quot(x, Num(100))), Sub(Sub(x, y), Quot(x, Num(50))), NaN}

\* check_accounting_equation on a one-period balance sheet, default tolerance.
CallCheckEquation ==
  /\ call.op = "none"
  /\ \E te \in EquityFor(call.x, call.y) :
       call' = [call EXCEPT
                  !.op = "check_accounting_equation",
                  !.z = te,
                  !.r = check_accounting_equation(
                          OnePeriodBalance(call.x, call.y, te), Tol)[YearStr(2023)]]
  /\ UNCHANGED <<prov, nEdits, req, result, cache, today, resp, run>>

NextArith == CallSafeDiv \/ CallAvg \/ LoadTestFormulas \/ CallCheckEquation

SpecArith == InitArith /\ [][NextArith]_vars

\* ------------------------------------------- normalization on its own

\* Longest raw table normalized.
MaxRows == 3

\* Raw labels: two synonyms of one canonical name, that canonical name
\* itself, another mapped label and a label the synonym table does not know.
RawLabels ==
  {"Total Revenue", "Operating Revenue", "TotalRevenue", "Net Income", "Turnover"}

\* Raw tables of one period whose i-th row holds the value i.
RawTables ==
  UNION {{Table(<<2023>>, [i \in 1..n |-> [label |-> labels[i], v |-> (2023 :> Num(i))]]) :
            labels \in [1..n -> RawLabels]} : n \in 0..MaxRows}

InitNorm ==
  /\ Idle
  /\ prov = BaseProvider
  /\ nEdits = 0
  /\ req = ""
  /\ result = NoResult
  /\ \E df \in RawTables : call = [NoCall EXCEPT !.x = df]

CallNormalize ==
  /\ call.op = "none"
  /\ call' = [call EXCEPT !.op = "normalize_field_names",
                          !.r = normalize_field_names(call.x)]
  /\ UNCHANGED <<prov, nEdits, req, result, cache, today, resp, run>>

NextNorm == CallNormalize

SpecNorm == InitNorm /\ [][NextNorm]_vars

\* ------------------------------------------------ the service (app.py)

\* Size of the lru_cache of _cached_metrics.
maxsize == 256

\* The spellings of the ticker a request may carry, and str.upper() on them.
RequestTickers == {"AAPL", "aapl"}
Upper(ticker) == IF ticker = "aapl" THEN "AAPL" ELSE ticker

\* The last calendar day considered.
MaxDay == 2

\* What the provider answers at one time or another: the complete company,
\* the sparse one, or a failure to read the statements.
AppProviders == {BaseProvider, SparseProvider, [BaseProvider EXCEPT !.mode = "raise"]}

\* salt = "" if force_refresh else str(date.today())
Salt(force_refresh, day) == IF force_refresh THEN <<"", 0>> ELSE <<"date", day>>

\* The positions of a key in the cache (none or one).
CacheAt(c, key) == {i \in DOMAIN c : c[i].key = key}

\* _cached_metrics that keeps successful documents only: a document with an
\* 'error' field is returned but not stored.
cached_metrics_noerr(c, p, ticker, salt) ==
  IF CacheAt(c, <<ticker, salt>>) # {}
  THEN LET i == CHOOSE j \in CacheAt(c, <<ticker, salt>>) : TRUE
       IN [res |-> Return(c[i].val), cache |-> RemoveAt(c, i) \o <<c[i]>>, computed |-> FALSE]
  ELSE LET r == compute_all(p, ticker)
       IN [res |-> r, computed |-> TRUE,
           cache |-> IF r.raised \/ "error" \in DOMAIN r.val THEN c
                     ELSE (IF Len(c) >= maxsize THEN Tail(c) ELSE c)
                            \o <<[key |-> <<ticker, salt>>, val |-> r.val]>>]

\* _cached_metrics(ticker, salt) under lru_cache: a hit returns the stored
\* value and makes its entry the most recent; a miss calls compute_all and
\* stores what it returns (nothing when it raises), evicting the least
\* recently used entry of a full cache.
cached_metrics(c, p, ticker, salt) ==
  IF CacheAt(c, <<ticker, salt>>) # {}
  THEN LET i == CHOOSE j \in CacheAt(c, <<ticker, salt>>) : TRUE
       IN [res |-> Return(c[i].val), cache |-> RemoveAt(c, i) \o <<c[i]>>, computed |-> FALSE]
  ELSE LET r == compute_all(p, ticker)
       IN [res |-> r, computed |-> TRUE,
           cache |-> IF r.raised THEN c
                     ELSE (IF Len(c) >= maxsize THEN Tail(c) ELSE c)
                            \o <<[key |-> <<ticker, salt>>, val |-> r.val]>>]

\* str(HTTPException(status_code=502, detail="Computation failed"))
ComputationFailed == Msg("HTTPException", "", 502, "Computation failed")

\* The try block of metrics once _cached_metrics has answered: the value is
\* returned, or HTTPException(502) is raised when it is empty or lacks 'ratios'.
MetricsTry(r) ==
  IF r.raised THEN r
  ELSE IF DOMAIN r.val = {} \/ "ratios" \notin DOMAIN r.val THEN Raise(ComputationFailed)
  ELSE r

\* metrics(ticker, force_refresh) on the value of _cached_metrics: whatever
\* the try block raised, the HTTPException(502) included, is answered by
\* 'except Exception' with status 400 and the exception's text.
MetricsAnswer(r) ==
  LET t == MetricsTry(r)
  IN IF t.raised THEN [status |-> 400, body |-> EmptyMap, detail |-> t.msg]
     ELSE [status |-> 200, body |-> t.val, detail |-> NoMsg]

InitApp ==
  /\ prov \in AppProviders
  /\ nEdits = 0
  /\ req = ""
  /\ result = NoResult
  /\ call = NoCall
  /\ Idle

\* The provider's answer changes between two requests.
ProviderChanges ==
  /\ \E p \in AppProviders \ {prov} : prov' = p
  /\ UNCHANGED <<nEdits, req, result, call, cache, today, resp, run>>

\* Midnight.
DayPasses ==
  /\ today < MaxDay
  /\ today' = today + 1
  /\ UNCHANGED <<prov, nEdits, req, result, call, cache, resp, run>>

\* GET /metrics/{ticker}?force_refresh=...
Metrics ==
  \E ticker \in RequestTickers, force_refresh \in BOOLEAN :
    \E m \in {cached_metrics(cache, prov, Upper(ticker), Salt(force_refresh, today))} :
      /\ cache' = m.cache
      /\ resp' = [status |-> MetricsAnswer(m.res).status,
                  body |-> MetricsAnswer(m.res).body,
                  detail |-> MetricsAnswer(m.res).detail,
                  ticker |-> ticker,
                  force_refresh |-> force_refresh,
                  computed |-> m.computed]
      /\ UNCHANGED <<prov, nEdits, req, result, call, today, run>>

NextApp == ProviderChanges \/ DayPasses \/ Metrics

SpecApp == InitApp /\ [][NextApp]_vars

\* -------------------------------------------- the command line (cli.py)

\* The parsed arguments: --ticker, --format, --verbose, --dump, --strict.
Args ==
  [ticker : Tickers, format : {"json", "table"}, verbose : BOOLEAN,
   dump : BOOLEAN, strict : BOOLEAN]

\* Key orders of the document's sections, as compute_all builds them.
RatioOrder == <<"current", "quick", "debt_to_equity", "roe", "roa", "roe_adjusted">>
ThreeStepOrder == <<"roe", "npm", "asset_turnover", "equity_multiplier">>
SignalOrder == <<"F1", "F2", "F3", "F4", "F5", "F6", "F7", "F8", "F9">>
PriceOrder == <<"pe", "pb", "ps", "peg">>
DividendOrder == <<"dividend_yield", "dividend_payout_ratio", "dividend_coverage_ratio">>

\* The keys of a section in their order, for a section that may be empty.
KeysOf(d, order) == SelectSeq(order, LAMBDA k : k \in DOMAIN d)

\* One print: a value under a format. A numeric format (".2%", ".4f", ".2f")
\* applied to None raises TypeError; "N/A" and "s" print text.
Shown(section, key, fmt, v) == [section |-> section, key |-> key, fmt |-> fmt, v |-> v]
NumericFormats == {".2%", ".4f", ".2f"}
Faults(line) == line.fmt \in NumericFormats /\ IsNone(line.v)

\* isinstance(value, (int, float)) and not pd.isna(value)
IsNumber(v) == ~IsNa(v)

\* The period keys of the validation map in statement order.
PeriodOrder == [i \in DOMAIN Periods |-> YearStr(Periods[i])]

\* The prints print_table_output attempts, in order.
TableLines(data) ==
  << Shown("header", "ticker", "s", data.ticker),
     Shown("header", "currency", "s", data.currency) >>
  \o (IF "years" \in DOMAIN data /\ Len(data.years) >= 2
      THEN << Shown("header", "years", "s", <<data.years[1], data.years[2]>>) >>
      ELSE <<>>)
  \o (IF "ratios" \in DOMAIN data
      THEN LET ks == KeysOf(data.ratios, RatioOrder)
           IN [i \in DOMAIN ks |->
                 IF IsNumber(data.ratios[ks[i]])
                 THEN Shown("ratios", ks[i],
                            IF ks[i] \in {"roe", "roa", "roe_adjusted"} THEN ".2%" ELSE ".4f",
                            data.ratios[ks[i]])
                 ELSE Shown("ratios", ks[i], "N/A", data.ratios[ks[i]])]
      ELSE <<>>)
  \o (IF "dupont" \in DOMAIN data /\ "roe_3step" \in DOMAIN data.dupont
      THEN LET roe3 == data.dupont.roe_3step
           IN [i \in DOMAIN ThreeStepOrder |->
                 Shown("roe_3step", ThreeStepOrder[i],
                       IF ThreeStepOrder[i] \in {"roe", "npm"} THEN ".2%" ELSE ".4f",
                       IF ThreeStepOrder[i] \in DOMAIN roe3 THEN roe3[ThreeStepOrder[i]]
                       ELSE Num(0))]
      ELSE <<>>)
  \o (IF "dupont" \in DOMAIN data /\ "roe_5step" \in DOMAIN data.dupont
      THEN << Shown("roe_5step", "roe", ".2%",
                    IF "roe" \in DOMAIN data.dupont.roe_5step
                    THEN data.dupont.roe_5step.roe ELSE Num(0)) >>
      ELSE <<>>)
  \o (IF "piotroski" \in DOMAIN data
      THEN << IF "fscore_display" \in DOMAIN data.piotroski
              THEN Shown("piotroski", "fscore_display", "s", data.piotroski.fscore_display)
              ELSE IF ~IsNa(data.piotroski.score)
              THEN Shown("piotroski", "score", ".2f", data.piotroski.score)
              ELSE Shown("piotroski", "score", "N/A", None) >>
           \o (LET ks == KeysOf(data.piotroski.signals, SignalOrder)
               IN [i \in DOMAIN ks |->
                     Shown("signals", ks[i], "s", data.piotroski.signals[ks[i]] = 1)])
      ELSE <<>>)
  \o (IF "beneish" \in DOMAIN data
      THEN << IF ~IsNone(data.beneish.m)
              THEN Shown("beneish", "m", ".4f", data.beneish.m)
              ELSE Shown("beneish", "m", "N/A", data.beneish.reason) >>
           \o (LET ks == KeysOf(data.beneish.components, BeneishOrder)
               IN [i \in DOMAIN ks |->
                     IF ~IsNone(data.beneish.components[ks[i]])
                     THEN Shown("components", ks[i], ".4f", data.beneish.components[ks[i]])
                     ELSE Shown("components", ks[i], "N/A", None)])
      ELSE <<>>)
  \o (IF "price_based" \in DOMAIN data
      THEN LET ks == KeysOf(data.price_based, PriceOrder)
           IN [i \in DOMAIN ks |->
                 IF ~IsNone(data.price_based[ks[i]])
                 THEN Shown("price_based", ks[i], ".4f", data.price_based[ks[i]])
                 ELSE Shown("price_based", ks[i], "N/A", None)]
      ELSE <<>>)
  \o (IF "dividends" \in DOMAIN data
      THEN LET ks == KeysOf(data.dividends, DividendOrder)
           IN [i \in DOMAIN ks |->
                 IF ~IsNone(data.dividends[ks[i]])
                 THEN Shown("dividends", ks[i],
                            IF ks[i] = "dividend_coverage_ratio" THEN ".4f" ELSE ".2%",
                            data.dividends[ks[i]])
                 ELSE Shown("dividends", ks[i], "N/A", None)]
      ELSE <<>>)
  \o (IF "validation" \in DOMAIN data
      THEN LET ks == KeysOf(data.validation, PeriodOrder)
           IN [i \in DOMAIN ks |->
                 Shown("validation", ks[i], ".4f", data.validation[ks[i]].delta)]
      ELSE <<>>)
  \o (IF "notes" \in DOMAIN data
      THEN [i \in DOMAIN data.notes |-> Shown("notes", "", "s", data.notes[i])]
      ELSE <<>>)

\* The message of the TypeError a numeric format raises on None.
FormatError == Msg("unsupported format string passed to", "", 0, "NoneType.__format__")

\* print_table_output(data): the lines printed, all of them or those before
\* the first print that raises.
print_table_output(data) ==
  LET lines == TableLines(data)
      bad == {i \in DOMAIN lines : Faults(lines[i])}
  IN IF bad = {} THEN [raised |-> FALSE, msg |-> NoMsg, stdout |-> lines]
     ELSE [raised |-> TRUE, msg |-> FormatError,
           stdout |-> SubSeq(lines, 1, (CHOOSE i \in bad : \A j \in bad : i <= j) - 1)]

\* The keys of the simplified output that main reads with result[...].
RequiredKeys == {"ticker", "currency", "years", "ratios"}
\* Those it reads with result.get(..., {}).
OptionalKeys == {"dupont", "piotroski", "beneish", "price_based", "dividends"}

\* The simplified output of a run without --verbose and --dump.
Simplified(doc) ==
  [k \in RequiredKeys \cup OptionalKeys |->
     IF k \in DOMAIN doc THEN doc[k] ELSE EmptyMap]

\* What a run leaves: its exit status and what it printed.
Ran(args, exit, stdout, stderr) ==
  [args |-> args, exit |-> exit, stdout |-> stdout, stderr |-> stderr]

\* The line main's except branch prints on stderr before sys.exit(1).
ErrorProcessing(args, e) == [kind |-> "Error processing", ticker |-> args.ticker, msg |-> e]

\* main with the strict checks left out.
main_lenient(r, args) ==
  IF r.raised THEN Ran(args, 1, <<>>, <<ErrorProcessing(args, r.msg)>>)
  ELSE
    LET doc == r.val
        warning == IF "error" \in DOMAIN doc
                   THEN <<[kind |-> "Warning:", ticker |-> "", msg |-> doc.error]>>
                   ELSE <<>>
        output == IF args.dump \/ args.verbose THEN doc ELSE Simplified(doc)
        table == print_table_output(output)
    IN IF ~args.dump /\ ~args.verbose /\ ~(RequiredKeys \subseteq DOMAIN doc)
       THEN Ran(args, 1, <<>>,
                warning \o <<ErrorProcessing(args, Msg("KeyError", "", 0, ""))>>)
       ELSE IF args.format = "json"
       THEN Ran(args, 0, <<[json |-> output, sort_keys |-> args.dump]>>, warning)
       ELSE IF table.raised
       THEN Ran(args, 1, table.stdout, warning \o <<ErrorProcessing(args, table.msg)>>)
       ELSE Ran(args, 0, table.stdout, warning)

\* main() after argument parsing, on what compute_all gave: the exit status
\* (0 when main returns), the prints on stdout and the lines on stderr.
main(r, args) ==
  IF r.raised THEN Ran(args, 1, <<>>, <<ErrorProcessing(args, r.msg)>>)
  ELSE
    LET doc == r.val
        warning == IF "error" \in DOMAIN doc
                   THEN <<[kind |-> "Warning:", ticker |-> "", msg |-> doc.error]>>
                   ELSE <<>>
        failed == SelectSeq(KeysOf(doc.validation, PeriodOrder),
                            LAMBDA year : ~doc.validation[year].ok)
        output == IF args.dump \/ args.verbose THEN doc ELSE Simplified(doc)
        table == print_table_output(output)
    IN IF "error" \in DOMAIN doc /\ args.strict
       THEN Ran(args, 1, <<>>,
                <<ErrorProcessing(args, Msg("Computation failed:", "", 0, doc.error))>>)
       ELSE IF args.strict /\ failed # <<>>
       THEN Ran(args, 1, <<>>,
                warning \o <<ErrorProcessing(args,
                   Msg("Accounting equation validation failed for", "", failed[1][2],
                       doc.validation[failed[1]].delta))>>)
       ELSE IF ~args.dump /\ ~args.verbose /\ ~(RequiredKeys \subseteq DOMAIN doc)
       THEN Ran(args, 1, <<>>,
                warning \o <<ErrorProcessing(args, Msg("KeyError", "", 0, ""))>>)
       ELSE IF args.format = "json"
       THEN Ran(args, 0, <<[json |-> output, sort_keys |-> args.dump]>>, warning)
       ELSE IF table.raised
       THEN Ran(args, 1, table.stdout, warning \o <<ErrorProcessing(args, table.msg)>>)
       ELSE Ran(args, 0, table.stdout, warning)

\* Companies the command line is run on: the complete and the sparse one, a
\* provider that fails, the complete company with one line item missing or
\* one current-period cell zero, and with an info entry absent, null or zero.
CliProviders ==
  {BaseProvider, SparseProvider, [BaseProvider EXCEPT !.mode = "raise"]}
  \cup UNION {{[BaseProvider EXCEPT ![s].rows = RemoveAt(BaseProvider[s].rows, i)] :
                  i \in DOMAIN BaseProvider[s].rows} : s \in Statements}
  \cup {[BaseProvider EXCEPT !.balance.rows[i].v[2023] = Num(0)] : i \in 1..3}
  \cup {[BaseProvider EXCEPT !.info = Restrict(BaseProvider.info, DOMAIN BaseProvider.info \ {key})] :
          key \in DOMAIN BaseInfo}
  \cup {[BaseProvider EXCEPT !.info[key] = x] : key \in DOMAIN BaseInfo, x \in InfoValues}

InitCli ==
  /\ prov \in CliProviders
  /\ nEdits = 0
  /\ req = ""
  /\ result = NoResult
  /\ call = NoCall
  /\ Idle

\* python -m finance_clean.cli --ticker T [--format F] [--verbose] [--dump] [--strict]
CliMain ==
  /\ run = NoRun
  /\ \E r \in {compute_all(prov, t) : t \in Tickers} :
       /\ req' = r.val.ticker
       /\ result' = r
       /\ \E args \in Args : args.ticker = r.val.ticker /\ run' = main(r, args)
  /\ UNCHANGED <<prov, nEdits, call, cache, today, resp>>

NextCli == CliMain

SpecCli == InitCli /\ [][NextCli]_vars

\* ------------------------------------- the answer of metrics on its own

\* The documents compute_all returns for the companies above.
SampleDocuments == {compute_all(p, t).val : p \in CliProviders, t \in Tickers}

\* What the try block of metrics may be handed by _cached_metrics: a
\* document of compute_all, and the cases its own checks provide for: a
\* document without 'ratios', an empty result, and a raised exception.
AnswerInputs ==
  {Return(d) : d \in SampleDocuments}
  \cup {Return(Restrict(d, DOMAIN d \ {"ratios"})) : d \in SampleDocuments}
  \cup {Return(EmptyMap), Raise(Msg("RuntimeError", "", 0, ""))}

InitAnswer ==
  /\ prov = BaseProvider
  /\ nEdits = 0
  /\ req = ""
  /\ result = NoResult
  /\ \E r \in AnswerInputs : call = [NoCall EXCEPT !.x = r]
  /\ Idle

\* metrics from the value of _cached_metrics on.
CallMetricsAnswer ==
  /\ call.op = "none"
  /\ call' = [call EXCEPT !.op = "metrics", !.r = MetricsAnswer(call.x)]
  /\ UNCHANGED <<prov, nEdits, req, result, cache, today, resp, run>>

NextAnswer == CallMetricsAnswer

SpecAnswer == InitAnswer /\ [][NextAnswer]_vars

\* ------------------------------------------------------------ properties

Called == req # ""
Doc == result.val
IsErrorDoc == Called /\ ~result.raised /\ "error" \in DOMAIN Doc
IsSuccessDoc == Called /\ ~result.raised /\ "error" \notin DOMAIN Doc

DocKeys ==
  {"ticker", "currency", "years", "validation", "ratios", "dupont", "piotroski",
   "beneish", "altman", "price_based", "dividends", "alpha", "notes"}

AllNonEmpty == ~IsEmpty(prov.income) /\ ~IsEmpty(prov.balance) /\ ~IsEmpty(prov.cashflow)
NCommon == Cardinality(CommonYears(prov))

\* C1: whatever the provider does, compute_all hands its caller a document and
\* no exception escapes.
C1_AlwaysReturnsDocument ==
  Called => ~result.raised /\ DocKeys \subseteq DOMAIN result.val

C1_Witness == Called /\ prov.mode = "raise" /\ ~result.raised

\* The success shape: no 'error' key and every section populated.
SuccessShape(d) ==
  /\ DOMAIN d = DocKeys
  /\ Len(d.years) = 2
  /\ DOMAIN d.validation # {}
  /\ DOMAIN d.ratios = {"current", "quick", "debt_to_equity", "roe", "roa", "roe_adjusted"}
  /\ DOMAIN d.dupont = {"roe_3step", "roe_5step"}
  /\ DOMAIN d.piotroski.signals = {"F1", "F2", "F3", "F4", "F5", "F6", "F7", "F8", "F9"}
  /\ DOMAIN d.beneish.components = Range(BeneishOrder)
  /\ DOMAIN d.altman.components = {"a", "b", "c", "d", "e"}
  /\ DOMAIN d.price_based = {"pe", "pb", "ps", "peg"}
  /\ DOMAIN d.dividends = {"dividend_yield", "dividend_payout_ratio",
                           "dividend_coverage_ratio"}

\* Ticker, error and the single note of a degraded-error document.
DegradedHead(d, t, m) ==
  /\ DOMAIN d = DocKeys \cup {"error"}
  /\ d.ticker = t
  /\ d.error = m
  /\ Len(d.notes) = 1
  /\ d.notes[1] = Note("Error:", "", "", m)

SectionNames ==
  {"validation", "ratios", "dupont", "piotroski", "beneish", "altman",
   "price_based", "dividends"}

\* C2 as claimed: two shapes only, and in the degraded one every section,
\* the three score sections included, is empty.
C2_Original ==
  Called =>
    /\ ~result.raised
    /\ LET f == TryBody(prov, req)
       IN IF f.raised
          THEN /\ DegradedHead(Doc, req, f.msg)
               /\ \A sec \in SectionNames : DOMAIN Doc[sec] = {}
          ELSE SuccessShape(Doc)

\* C2 amended: two shapes only; in the degraded one validation, ratios, dupont,
\* price_based and dividends are empty maps, while piotroski, beneish and
\* altman are skeletons: null composite, empty signals/components, the
\* display "N/A" and a reason embedding the fault's message.
C2_TwoShapes ==
  Called =>
    /\ ~result.raised
    /\ LET f == TryBody(prov, req)
       IN IF f.raised
          THEN /\ DegradedHead(Doc, req, f.msg)
               /\ \A sec \in {"validation", "ratios", "dupont", "price_based", "dividends"} :
                    DOMAIN Doc[sec] = {}
               /\ Doc.years = <<>>
               /\ Doc.piotroski.score = None
               /\ Doc.piotroski.fscore_display.fmt = "N/A"
               /\ DOMAIN Doc.piotroski.signals = {}
               /\ Doc.beneish.m = None
               /\ DOMAIN Doc.beneish.components = {}
               /\ Doc.beneish.reason = Reason("computation_error:", <<>>, f.msg)
               /\ Doc.altman.z = None
               /\ DOMAIN Doc.altman.components = {}
               /\ Doc.altman.reason = Reason("computation_error:", <<>>, f.msg)
          ELSE SuccessShape(Doc)

C2_Witness ==
  IsErrorDoc /\ Doc.error.tag = "Insufficient common years" /\ Len(Doc.notes) = 1

InfoUnknown(key) == key \notin DOMAIN prov.info \/ prov.info[key] = None

\* C3 as claimed: with two common periods, an info entry that is absent or null
\* still gives a success document, the leaves that need it null.
C3_MissingInfoNeverAborts ==
  (/\ Called
   /\ prov.mode = "tables" /\ AllNonEmpty /\ NCommon >= 2
   /\ \E key \in DOMAIN BaseInfo : InfoUnknown(key))
  => /\ IsSuccessDoc
     /\ SuccessShape(Doc)
     /\ InfoUnknown("sharesOutstanding") =>
          Doc.price_based.pe = None /\ Doc.price_based.ps = None

InsufficientError ==
  IsErrorDoc /\ Doc.error.tag = "Insufficient common years" /\ Doc.error.n = NCommon

\* C4 as claimed: fewer than two common periods always give the
\* insufficient-periods error.
C4_Original ==
  (Called /\ prov.mode = "tables") =>
    /\ NCommon < 2 => InsufficientError /\ DOMAIN Doc.ratios = {}
    /\ NCommon >= 2 => ~(IsErrorDoc /\ Doc.error.tag = "Insufficient common years")

\* C4 amended: with three non-empty tables, fewer than two common periods give
\* the degraded-error document whose error is "Insufficient common years: N
\* found"; an empty table gives the degraded-error document with the
\* fetch-failure message instead; two or more common periods never give the
\* insufficient-periods error.
C4_InsufficientHistory ==
  (Called /\ prov.mode = "tables") =>
    /\ (AllNonEmpty /\ NCommon < 2) => InsufficientError /\ DOMAIN Doc.ratios = {}
    /\ ~AllNonEmpty =>
         /\ IsErrorDoc
         /\ Doc.error.tag = "Failed to fetch data for"
         /\ Doc.error.inner = "No financial data available for ticker"
         /\ DOMAIN Doc.ratios = {}
    /\ NCommon >= 2 => ~(IsErrorDoc /\ Doc.error.tag = "Insufficient common years")

C4_Witness == Called /\ prov.mode = "tables" /\ AllNonEmpty /\ NCommon = 1 /\ IsErrorDoc

MapLeaves(m) == {m[k] : k \in DOMAIN m}

ValidationLeaves(d) ==
  UNION {LET r == d.validation[c]
         IN {r.delta} \cup
            (IF "assets" \in DOMAIN r
             THEN {r.assets, r.liabilities, r.equity, r.calculated_total} ELSE {}) :
         c \in DOMAIN d.validation}

\* Every numeric leaf of a document.
Leaves(d) ==
  ValidationLeaves(d) \cup MapLeaves(d.ratios)
    \cup (IF DOMAIN d.dupont = {} THEN {}
          ELSE MapLeaves(d.dupont.roe_3step) \cup MapLeaves(d.dupont.roe_5step))
    \cup {d.piotroski.score, d.beneish.m, d.altman.z, d.altman.z_prime, d.alpha}
    \cup MapLeaves(d.beneish.components) \cup MapLeaves(d.altman.components)
    \cup MapLeaves(d.price_based) \cup MapLeaves(d.dividends)

\* C5 as claimed: no leaf of a returned document, the validation results
\* included, is infinite or NaN.
C5_NoNonFiniteLeaf ==
  (Called /\ ~result.raised) => \A x \in Leaves(Doc) : ~IsNaN(x) /\ ~IsInfV(x)

SafeDivCalled == call.op = "safe_div"
Tiny(b) == IsFin(b) /\ Less(AbsV(b), Eps)

\* C6 as claimed: the quotient for finite operands with |b| >= 1e-12, unknown
\* when |b| < 1e-12 or an operand is unknown or not finite.
C6_Original ==
  SafeDivCalled =>
    /\ (IsFin(call.x) /\ IsFin(call.y) /\ ~Tiny(call.y)) =>
         IsFin(call.r) /\ Mul(call.r, call.y) = call.x
    /\ (Tiny(call.y) \/ ~IsFin(call.x) \/ ~IsFin(call.y)) => call.r = NaN

\* C6 amended: the quotient for finite operands with |b| >= 1e-12; unknown when
\* |b| < 1e-12, when an operand is None or NaN, or when the numerator is
\* infinite; and 0, not unknown, for a finite numerator over an infinite
\* denominator.
C6_SafeDiv ==
  SafeDivCalled =>
    /\ (IsFin(call.x) /\ IsFin(call.y) /\ ~Tiny(call.y)) =>
         IsFin(call.r) /\ Mul(call.r, call.y) = call.x
    /\ (Tiny(call.y) \/ IsNa(call.x) \/ IsNa(call.y) \/ IsInfV(call.x)) => call.r = NaN
    /\ (IsFin(call.x) /\ IsInfV(call.y)) => call.r = Num(0)

C6_Witness ==
  SafeDivCalled /\ IsFin(call.x) /\ call.x # Num(0) /\ call.y = Eps /\ IsFin(call.r)

\* C7: avg(a, b) is unknown exactly when a or b is unknown or not finite, and
\* is (a+b)/2 otherwise.
C7_Avg ==
  call.op = "avg" =>
    /\ call.r = NaN <=> (~IsFin(call.x) \/ ~IsFin(call.y))
    /\ (IsFin(call.x) /\ IsFin(call.y)) =>
         IsFin(call.r) /\ Add(call.r, call.r) = Add(call.x, call.y)

C7_Witness == call.op = "avg" /\ IsInfV(call.x) /\ IsFin(call.y) /\ call.r = NaN

\* C8 as claimed: the compute module provides pct_change, so the import of
\* tests/test_formulas.py succeeds.
C8_PctChangeProvided ==
  call.op = "import" => call.status = "ok"

\* The components of a score the document reports as unknown, in order.
UnknownIn(components, order) == SelectSeq(order, LAMBDA c : components[c] = None)

\* C9: in a success document the Beneish m is null exactly when a component is
\* unknown; then reason names exactly the unknown components; with all eight
\* present m is a number and reason is null.
C9_BeneishComposite ==
  IsSuccessDoc =>
    LET b == Doc.beneish
        unknown == UnknownIn(b.components, BeneishOrder)
    IN /\ b.m = None <=> unknown # <<>>
       /\ unknown # <<>> => b.reason = Reason("insufficient_fields:", unknown, NoMsg)
       /\ unknown = <<>> => IsFin(b.m) /\ b.reason = NoReason

C9_Witness ==
  /\ IsSuccessDoc
  /\ UnknownIn(Doc.beneish.components, BeneishOrder) = BeneishOrder
  /\ Doc.beneish.m = None
  /\ Doc.beneish.reason.names = BeneishOrder

AltmanOrder == <<"a", "b", "c", "d", "e">>

\* The words of the Altman reason that stand for each component.
AltmanWord ==
  [a |-> "working capital", b |-> "retained earnings", c |-> "EBIT",
   d |-> "equity", e |-> "revenue"]

AltmanUnknown == Range(UnknownIn(Doc.altman.components, AltmanOrder))

Sel == select_two_years(prov).val

\* A statement field of the current (k = 1) or prior (k = 2) period.
Fld(tab, name, k) == safe_get_field(Sel[tab], name, Sel.years[k])

\* Each Beneish component as its formula gives it from the statement fields.
RawBeneish ==
  [DSRI |-> safe_div(safe_div(Fld("balance", "NetReceivables", 1), Fld("income", "TotalRevenue", 1)),
                     safe_div(Fld("balance", "NetReceivables", 2), Fld("income", "TotalRevenue", 2))),
   GMI |-> safe_div(safe_div(Fld("income", "GrossProfit", 2), Fld("income", "TotalRevenue", 2)),
                    safe_div(Fld("income", "GrossProfit", 1), Fld("income", "TotalRevenue", 1))),
   AQI |-> safe_div(
             Sub(Num(1), safe_div(Add(Fld("balance", "TotalCurrentAssets", 1),
                                      Fld("balance", "NetPPE", 1)),
                                  Fld("balance", "TotalAssets", 1))),
             Sub(Num(1), safe_div(Add(Fld("balance", "TotalCurrentAssets", 2),
                                      Fld("balance", "NetPPE", 2)),
                                  Fld("balance", "TotalAssets", 2)))),
   SGI |-> safe_div(Fld("income", "TotalRevenue", 1), Fld("income", "TotalRevenue", 2)),
   DEPI |-> safe_div(safe_div(Fld("cashflow", "Depreciation", 2),
                              Add(Fld("cashflow", "Depreciation", 2), Fld("balance", "NetPPE", 2))),
                     safe_div(Fld("cashflow", "Depreciation", 1),
                              Add(Fld("cashflow", "Depreciation", 1), Fld("balance", "NetPPE", 1)))),
   SGAI |-> safe_div(safe_div(Fld("income", "SellingGeneralAdministrative", 1),
                              Fld("income", "TotalRevenue", 1)),
                     safe_div(Fld("income", "SellingGeneralAdministrative", 2),
                              Fld("income", "TotalRevenue", 2))),
   LVGI |-> safe_div(safe_div(Fld("balance", "TotalLiabilities", 1), Fld("balance", "TotalAssets", 1)),
                     safe_div(Fld("balance", "TotalLiabilities", 2), Fld("balance", "TotalAssets", 2))),
   TATA |-> safe_div(Sub(Fld("income", "OperatingIncome", 1),
                         Fld("cashflow", "TotalCashFromOperatingActivities", 1)),
                     Fld("balance", "TotalAssets", 1))]

\* Each Altman component as its formula gives it from the statement fields.
RawAltman ==
  [a |-> safe_div(Sub(Fld("balance", "TotalCurrentAssets", 1),
                      Fld("balance", "TotalCurrentLiabilities", 1)),
                  Fld("balance", "TotalAssets", 1)),
   b |-> safe_div(Fld("balance", "RetainedEarnings", 1), Fld("balance", "TotalAssets", 1)),
   c |-> safe_div(Fld("income", "OperatingIncome", 1), Fld("balance", "TotalAssets", 1)),
   d |-> safe_div(Fld("balance", "TotalStockholderEquity", 1),
                  Fld("balance", "TotalLiabilities", 1)),
   e |-> safe_div(Fld("income", "TotalRevenue", 1), Fld("balance", "TotalAssets", 1))]

\* A reported component is null when its own value is unknown and is that
\* value, rounded, when it is known.
ReportedAsComputed(reported, raw) ==
  \A c \in DOMAIN raw :
    IF IsNa(raw[c]) THEN reported[c] = None
    ELSE IsFin(reported[c]) /\ reported[c] = Round4(raw[c])

ScoreRange == {Num(k) : k \in 0..9}

\* C12 as claimed: in every document compute_all returns, the degraded-error
\* document included, piotroski.score is an integer in [0,9].
C12_Original ==
  (Called /\ ~result.raised) => Doc.piotroski.score \in ScoreRange

\* C12 amended: in every success document piotroski.score is an integer in
\* [0,9], the number of the nine signals that are 1; in the degraded-error
\* document it is null.
C12_PiotroskiScore ==
  /\ IsSuccessDoc =>
       /\ Doc.piotroski.score \in ScoreRange
       /\ \A sig \in DOMAIN Doc.piotroski.signals : Doc.piotroski.signals[sig] \in {0, 1}
       /\ Doc.piotroski.score =
            Num(Cardinality({sig \in DOMAIN Doc.piotroski.signals :
                               Doc.piotroski.signals[sig] = 1}))
  /\ IsErrorDoc => Doc.piotroski.score = None

C12_Witness ==
  IsSuccessDoc /\ Doc.piotroski.score \in ScoreRange \ {Num(0), Num(1)}

\* C13 as claimed: signal F7 is 1 in every computation, whatever the
\* shares-outstanding entry of the info snapshot is.
C13_F7AlwaysOne ==
  IsSuccessDoc => Doc.piotroski.signals.F7 = 1

\* What the equation check stores when total assets is unknown or not positive.
NoAssetsResult ==
  [ok |-> FALSE, delta |-> PInf, error |-> "Total Assets is zero or missing"]

\* C14: for a period the check yields {ok: false, delta: infinity, error} when
\* total assets is unknown or <= 0; otherwise delta is |A - (L + E)| / A and
\* ok is delta <= 0.01; A = L + E with A > 0 gives ok true and delta 0.
C14_AccountingEquation ==
  call.op = "check_accounting_equation" =>
    LET ta == call.x
        tl == IF IsNa(call.y) THEN NaN ELSE call.y
        te == IF IsNa(call.z) THEN NaN ELSE call.z
    IN IF IsNa(ta) \/ LessEq(ta, Num(0))
       THEN call.r = NoAssetsResult
       ELSE /\ call.r.delta = Quot(AbsV(Sub(ta, Add(tl, te))), ta)
            /\ call.r.ok <=> LessEq(call.r.delta, Frac(1, 100))
            /\ (IsFin(ta) /\ Add(tl, te) = ta) => call.r.ok /\ call.r.delta = Num(0)
            /\ (IsFin(call.r.delta) /\ Greater(call.r.delta, Frac(1, 100))) => ~call.r.ok

C14_Witness ==
  /\ call.op = "check_accounting_equation"
  /\ IsFin(call.x) /\ Greater(call.x, Num(0))
  /\ call.r.delta = Frac(1, 100)
  /\ call.r.ok

\* The equation check applied to one period's three totals alone.
PeriodAlone(col) ==
  check_accounting_equation(
    OnePeriodBalance(safe_get_field(Sel.balance, "TotalAssets", col),
                     safe_get_field(Sel.balance, "TotalLiabilities", col),
                     safe_get_field(Sel.balance, "TotalStockholderEquity", col)),
    Tol)[YearStr(2023)]

\* C15: the validation holds one entry for every period column of the balance
\* sheet, and a period's entry is what that period's assets, liabilities and
\* equity alone give: another period's missing or invalid data neither changes
\* nor removes it.
C15_PerPeriodIndependent ==
  IsSuccessDoc =>
    /\ DOMAIN Doc.validation = {YearStr(col) : col \in Range(prov.balance.cols)}
    /\ \A col \in Range(prov.balance.cols) :
         Doc.validation[YearStr(col)] = PeriodAlone(col)

C15_Witness ==
  /\ IsSuccessDoc
  /\ \E c1, c2 \in Range(prov.balance.cols) :
       /\ Doc.validation[YearStr(c1)] = NoAssetsResult
       /\ "assets" \in DOMAIN Doc.validation[YearStr(c2)]
       /\ Doc.validation[YearStr(c2)].ok

\* The periods present as columns in all three statements the provider gave.
CommonPeriods ==
  {y \in Range(prov.income.cols) :
     y \in Range(prov.balance.cols) /\ y \in Range(prov.cashflow.cols)}

\* C16: on success 'years' holds exactly two period identifiers, current
\* first and prior second: the two greatest of the periods common to the
\* three statements, both of them columns of each canonical table.
C16_TwoMostRecentYears ==
  IsSuccessDoc =>
    /\ Len(Doc.years) = 2
    /\ \E current, prior \in CommonPeriods :
         /\ Doc.years = <<YearStr(current), YearStr(prior)>>
         /\ current > prior
         /\ \A y \in CommonPeriods \ {current, prior} : y < prior
         /\ \A tab \in Statements : {current, prior} \subseteq Range(Sel[tab].cols)

C16_Witness ==
  /\ IsSuccessDoc
  /\ Cardinality(CommonPeriods) = 3
  /\ Doc.years = <<YearStr(2023), YearStr(2022)>>

\* The name a raw label is filed under.
ResultingName(label) ==
  IF label \in DOMAIN field_mappings THEN field_mappings[label] ELSE label

\* The first raw row filed under a name.
FirstRowNamed(raw, name) ==
  CHOOSE i \in DOMAIN raw :
    /\ ResultingName(raw[i].label) = name
    /\ \A j \in DOMAIN raw : ResultingName(raw[j].label) = name => i <= j

\* C17: normalize_field_names returns at most one row per resulting name; of
\* several raw rows filed under one name the first of the raw table is kept,
\* its values unchanged; labels the synonym table does not know pass through
\* under their own name.
C17_FirstWins ==
  call.op = "normalize_field_names" =>
    LET raw == call.x.rows
        out == call.r.rows
    IN /\ call.r.cols = call.x.cols
       /\ \A i, j \in DOMAIN out : out[i].label = out[j].label => i = j
       /\ {out[i].label : i \in DOMAIN out} = {ResultingName(raw[i].label) : i \in DOMAIN raw}
       /\ \A i \in DOMAIN out : out[i].v = raw[FirstRowNamed(raw, out[i].label)].v
       /\ \A i \in DOMAIN raw :
            raw[i].label \notin DOMAIN field_mappings =>
              \E j \in DOMAIN out : out[j].label = raw[i].label
       /\ \A i, j \in DOMAIN out :
            i < j => FirstRowNamed(raw, out[i].label) < FirstRowNamed(raw, out[j].label)

C17_Witness ==
  /\ call.op = "normalize_field_names"
  /\ Len(call.x.rows) = 3
  /\ call.x.rows[1].label = "Operating Revenue"
  /\ call.x.rows[2].label = "TotalRevenue"
  /\ call.x.rows[3].label = "Turnover"
  /\ Len(call.r.rows) = 2
  /\ call.r.rows[1] = [label |-> "TotalRevenue", v |-> (2023 :> Num(1))]
  /\ call.r.rows[2] = [label |-> "Turnover", v |-> (2023 :> Num(3))]

\* The time-series provider fails: it raises, has no history, or too little.
AlphaFails ==
  prov.ts.mode \in {"raise", "empty"} \/ prov.ts.common < MinAlphaMonths

\* The document of the same statements and info with a full price history.
WithFullHistory == compute_all([prov EXCEPT !.ts = BaseTs], req).val

\* C18: for the same statements and info, the documents with a working, a
\* short and a raising time-series provider agree in every field but 'alpha',
\* which is null when the provider fails; a failing alpha never turns a success
\* document into a degraded-error document.
C18_AlphaIsolated ==
  (Called /\ ~result.raised) =>
    \A ref \in {WithFullHistory} :
      /\ DOMAIN Doc = DOMAIN ref
      /\ \A key \in DOMAIN Doc \ {"alpha"} : Doc[key] = ref[key]
      /\ AlphaFails => Doc.alpha = None
      /\ ~AlphaFails => Doc.alpha = ref.alpha

C18_Witness ==
  /\ IsSuccessDoc
  /\ prov.ts.mode = "raise"
  /\ Doc.alpha = None
  /\ WithFullHistory.alpha # None
  /\ Doc.ratios.roe # None

\* The canonical fields compute_all reads from each statement.
FieldsRead ==
  [income |-> {"TotalRevenue", "GrossProfit", "OperatingIncome", "NetIncome",
               "PretaxIncome", "SellingGeneralAdministrative", "IncomeTaxExpense",
               "InterestExpense"},
   balance |-> {"TotalAssets", "TotalLiabilities", "TotalStockholderEquity",
                "TotalCurrentAssets", "TotalCurrentLiabilities", "Inventory", "NetPPE",
                "RetainedEarnings", "NetReceivables"},
   cashflow |-> {"TotalCashFromOperatingActivities", "Depreciation", "CashDividendsPaid"}]

\* The row of a canonical field is absent from a canonical statement.
RowAbsent(section, field) == field \notin Labels(Sel[section])

Noted(section, field) ==
  \E i \in DOMAIN Doc.notes :
    Doc.notes[i].section = section /\ Doc.notes[i].field = field

\* C19 as claimed: for every canonical field compute_all reads from a
\* statement, an absent row is recorded by a note of the success document.
C19_EveryReadFieldNoted ==
  IsSuccessDoc =>
    \A section \in Statements : \A field \in FieldsRead[section] :
      RowAbsent(section, field) => Noted(section, field)

\* The required fields of a section whose row is absent, in required order.
MissingOf(section) ==
  Only({SelectSeq(needed_fields[section], LAMBDA field : field \notin labels) :
          labels \in {Labels(Sel[section])}})

\* One note for each of a section's missing fields.
NotesOf(prefix, section, missing) ==
  [i \in DOMAIN missing |-> Note(prefix, section, missing[i], NoMsg)]

\* The notes one per missing required field, in discovery order, each with
\* the given text before its "section:field".
ExpectedNotes(prefix) ==
  Only({NotesOf(prefix, "income", income) \o NotesOf(prefix, "balance", balance)
          \o NotesOf(prefix, "cashflow", cashflow) :
        income \in {MissingOf("income")}, balance \in {MissingOf("balance")},
        cashflow \in {MissingOf("cashflow")}})

\* C20 as claimed: one note per missing required field, without duplicates, in
\* discovery order, each note being the bare "section:field".
C20_Original ==
  IsSuccessDoc => Doc.notes = ExpectedNotes("")

\* C20 amended: one note per missing required field, without duplicates, in
\* discovery order (income, balance, cashflow, each in required-list order),
\* each note reading "Missing field: section:field"; no missing required field
\* gives empty notes.
C20_NotesExact ==
  IsSuccessDoc =>
    /\ Doc.notes = ExpectedNotes("Missing field:")
    /\ \A i, j \in DOMAIN Doc.notes : Doc.notes[i] = Doc.notes[j] => i = j
    /\ (\A section \in Statements : \A field \in Range(needed_fields[section]) :
          ~RowAbsent(section, field)) => Doc.notes = <<>>

C20_Witness ==
  /\ IsSuccessDoc
  /\ \E i, j \in DOMAIN Doc.notes :
       /\ i < j
       /\ Doc.notes[i].section = "income"
       /\ Doc.notes[j].section = "cashflow"
       /\ Doc.notes[j].kind = "Missing field:"

\* ------------------------------------------------- the smoke test's keys

\* The statements can be read: the provider answers with three non-empty tables.
Retrievable == prov.mode = "tables" /\ AllNonEmpty

\* The keys tests/test_smoke.py requires under 'ratios', 'altman' and 'beneish'.
required_ratios == {"current_ratio", "quick_ratio", "debt_to_equity", "roe", "roa"}
SmokeAltmanKeys == {"z", "zone"}
SmokeBeneishKeys == {"m_score", "zone"}

\* C24: for a ticker whose statements are retrievable, the document has the
\* requested ticker, exactly two years, the ratios current_ratio, quick_ratio,
\* debt_to_equity, roe and roa, altman.z and altman.zone, and
\* beneish.m_score and beneish.zone.
C24_SmokeKeys ==
  (Called /\ ~result.raised /\ Retrievable /\ NCommon >= 2) =>
    /\ Doc.ticker = req
    /\ Len(Doc.years) = 2
    /\ required_ratios \subseteq DOMAIN Doc.ratios
    /\ SmokeAltmanKeys \subseteq DOMAIN Doc.altman
    /\ SmokeBeneishKeys \subseteq DOMAIN Doc.beneish

\* ------------------------------------------------------- DuPont products

\* The DuPont factors as their formulas give them from the statement fields.
RawDupont ==
  Only({[npm |-> safe_div(NetIncome_t, TotalRevenue_t),
         asset_turnover |-> safe_div(TotalRevenue_t, avg(TotalAssets_t, TotalAssets_t1)),
         equity_multiplier |-> safe_div(TotalAssets_t, TotalStockholderEquity_t),
         tax_burden |-> IF ~IsNa(PretaxIncome_t) /\ PretaxIncome_t # Num(0)
                        THEN safe_div(NetIncome_t, PretaxIncome_t) ELSE NaN,
         interest_burden |-> IF ~IsNa(OperatingIncome_t) /\ OperatingIncome_t # Num(0)
                             THEN safe_div(PretaxIncome_t, OperatingIncome_t) ELSE NaN,
         operating_margin |-> safe_div(OperatingIncome_t, TotalRevenue_t)] :
        NetIncome_t \in {Fld("income", "NetIncome", 1)},
        TotalRevenue_t \in {Fld("income", "TotalRevenue", 1)},
        PretaxIncome_t \in {Fld("income", "PretaxIncome", 1)},
        OperatingIncome_t \in {Fld("income", "OperatingIncome", 1)},
        TotalAssets_t \in {Fld("balance", "TotalAssets", 1)},
        TotalAssets_t1 \in {Fld("balance", "TotalAssets", 2)},
        TotalStockholderEquity_t \in {Fld("balance", "TotalStockholderEquity", 1)}})

ThreeStep == {"npm", "asset_turnover", "equity_multiplier"}
FiveStep ==
  {"tax_burden", "interest_burden", "operating_margin", "asset_turnover", "equity_multiplier"}

\* C25: in every success document ratios.roe_adjusted equals
\* dupont.roe_3step.roe, which is the product npm x asset_turnover x
\* equity_multiplier (rounded to four places) when the three factors are known
\* and null as soon as one of them is unknown; roe_5step.roe is null whenever
\* one of its five factors is unknown.
C25_DupontProducts ==
  IsSuccessDoc =>
    \A f \in {RawDupont} :
      /\ Doc.ratios.roe_adjusted = Doc.dupont.roe_3step.roe
      /\ IF \A k \in ThreeStep : ~IsNa(f[k])
         THEN Doc.dupont.roe_3step.roe =
                Round4(Mul(Mul(f.npm, f.asset_turnover), f.equity_multiplier))
         ELSE Doc.dupont.roe_3step.roe = None
      /\ (\E k \in FiveStep : IsNa(f[k])) => Doc.dupont.roe_5step.roe = None
      /\ \A k \in ThreeStep : Doc.dupont.roe_3step[k] = None <=> IsNa(f[k])
      /\ \A k \in FiveStep : Doc.dupont.roe_5step[k] = None <=> IsNa(f[k])

\* The three-step product is a number while the five-step one is null.
C25_Witness ==
  /\ IsSuccessDoc
  /\ IsFin(Doc.dupont.roe_3step.roe)
  /\ Doc.dupont.roe_3step.roe # Num(0)
  /\ Doc.dupont.roe_5step.roe = None
  /\ Doc.ratios.roe_adjusted = Doc.dupont.roe_3step.roe

\* -------------------------------------------------- price-based guards

\* The market data of the info snapshot as compute_all reads it.
InfoShares == InfoGet(prov.info, "sharesOutstanding", NaN)
InfoPrice ==
  IF Truthy(InfoGet(prov.info, "currentPrice", None))
  THEN InfoGet(prov.info, "currentPrice", None)
  ELSE InfoGet(prov.info, "regularMarketPrice", NaN)
InfoBookValue == InfoGet(prov.info, "bookValue", NaN)

\* Shares outstanding is unknown (absent or null) or not positive.
SharesUnusable == IsNa(InfoShares) \/ ~Greater(InfoShares, Num(0))

\* A leaf of 'price_based', null when the document does not carry it.
PriceLeaf(k) == IF k \in DOMAIN Doc.price_based THEN Doc.price_based[k] ELSE None

\* Earnings per share of the current (k = 1) or prior (k = 2) period.
RawEps(k) ==
  IF SharesUnusable THEN NaN ELSE safe_div(Fld("income", "NetIncome", k), InfoShares)

\* Growth of earnings per share, unknown unless the prior eps is positive.
RawGrowthEps ==
  Only({IF ~IsNa(eps_t1) /\ Greater(eps_t1, Num(0))
        THEN safe_div(Sub(eps_t, eps_t1), eps_t1) ELSE NaN :
        eps_t \in {RawEps(1)}, eps_t1 \in {RawEps(2)}})

\* What the guards promise of a document's price-based leaves.
PriceGuards ==
  /\ SharesUnusable =>
       /\ PriceLeaf("pe") = None
       /\ PriceLeaf("ps") = None
       /\ PriceLeaf("pb") = Leaf(safe_div(InfoPrice, InfoBookValue))
  /\ \A growth_eps \in {RawGrowthEps} :
       /\ ~(~IsNa(RawEps(2)) /\ Greater(RawEps(2), Num(0))) => IsNa(growth_eps)
       /\ PriceLeaf("peg") # None =>
            /\ PriceLeaf("pe") # None
            /\ Greater(growth_eps, Num(0))
            /\ PriceLeaf("peg") =
                 Leaf(safe_div(safe_div(InfoPrice, RawEps(1)), Mul(Num(100), growth_eps)))
       /\ (PriceLeaf("pe") = None \/ ~Greater(growth_eps, Num(0))) => PriceLeaf("peg") = None

\* C26: when shares outstanding is unknown or <= 0, pe and ps are null and
\* pb is price over the market-info book value; growthEPS is unknown unless
\* the prior eps is positive; peg is a number only when pe is known and
\* growthEPS > 0. Stated of every document compute_all returns for a company
\* whose statements share two periods.
C26_PriceGuards ==
  (Called /\ ~result.raised /\ Retrievable /\ NCommon >= 2) => PriceGuards

\* --------------------------------------------------- Piotroski signals

\* The two sides of each comparison signal, greater side first: the signal is
\* 1 when the first is strictly greater than the second.
SignalSides ==
  Only({[F1 |-> <<ROA_t, Num(0)>>,
         F2 |-> <<CFO_t, Num(0)>>,
         F3 |-> <<ROA_t, ROA_t1>>,
         F4 |-> <<CFO_t, NetIncome_t>>,
         F5 |-> <<safe_div(Fld("balance", "TotalLiabilities", 2), TotalAssets_t1),
                  safe_div(Fld("balance", "TotalLiabilities", 1), TotalAssets_t)>>,
         F6 |-> <<safe_div(Fld("balance", "TotalCurrentAssets", 1),
                           Fld("balance", "TotalCurrentLiabilities", 1)),
                  safe_div(Fld("balance", "TotalCurrentAssets", 2),
                           Fld("balance", "TotalCurrentLiabilities", 2))>>,
         F8 |-> <<safe_div(Fld("income", "GrossProfit", 1), TotalRevenue_t),
                  safe_div(Fld("income", "GrossProfit", 2), TotalRevenue_t1)>>,
         F9 |-> <<safe_div(TotalRevenue_t, TotalAssets_t),
                  safe_div(TotalRevenue_t1, TotalAssets_t1)>>] :
        ROA_t \in {safe_div(Fld("income", "NetIncome", 1), Fld("balance", "TotalAssets", 1))},
        ROA_t1 \in {safe_div(Fld("income", "NetIncome", 2), Fld("balance", "TotalAssets", 2))},
        CFO_t \in {Fld("cashflow", "TotalCashFromOperatingActivities", 1)},
        NetIncome_t \in {Fld("income", "NetIncome", 1)},
        TotalAssets_t \in {Fld("balance", "TotalAssets", 1)},
        TotalAssets_t1 \in {Fld("balance", "TotalAssets", 2)},
        TotalRevenue_t \in {Fld("income", "TotalRevenue", 1)},
        TotalRevenue_t1 \in {Fld("income", "TotalRevenue", 2)}})

AllSignals == {"F1", "F2", "F3", "F4", "F5", "F6", "F7", "F8", "F9"}

\* A side of a comparison is known.
Known(x) == ~IsNa(x)

\* C27: in a success document each of F1-F6, F8 and F9 is 1 exactly when both
\* sides of its comparison are known and the strict inequality holds, and 0
\* otherwise, so an unknown operand gives 0; the score is the sum of the nine
\* 0/1 signals and the display string is the score formatted "{:.2f}/9".
C27_PiotroskiSignals ==
  IsSuccessDoc =>
    \A sides \in {SignalSides} :
      /\ DOMAIN Doc.piotroski.signals = AllSignals
      /\ \A sig \in AllSignals : Doc.piotroski.signals[sig] \in {0, 1}
      /\ \A sig \in DOMAIN sides :
           Doc.piotroski.signals[sig] = 1 <=>
             /\ Known(sides[sig][1])
             /\ Known(sides[sig][2])
             /\ Less(sides[sig][2], sides[sig][1])
      /\ Doc.piotroski.score =
           Num(Doc.piotroski.signals.F1 + Doc.piotroski.signals.F2
               + Doc.piotroski.signals.F3 + Doc.piotroski.signals.F4
               + Doc.piotroski.signals.F5 + Doc.piotroski.signals.F6
               + Doc.piotroski.signals.F7 + Doc.piotroski.signals.F8
               + Doc.piotroski.signals.F9)
      /\ Doc.piotroski.fscore_display =
           [fmt |-> "{:.2f}/9", score |-> Doc.piotroski.score]

\* A signal is 0 because an operand is unknown while another signal is 1.
C27_Witness ==
  /\ IsSuccessDoc
  /\ \E sig \in DOMAIN SignalSides :
       /\ ~Known(SignalSides[sig][1]) \/ ~Known(SignalSides[sig][2])
       /\ Doc.piotroski.signals[sig] = 0
  /\ \E sig \in DOMAIN SignalSides : Doc.piotroski.signals[sig] = 1

\* ------------------------------------------------- the memoization layer

Answered == resp.status # 0

\* The cache entries a non-refresh request for the ticker would hit on a day.
EntriesFor(c, ticker, day) == CacheAt(c, <<Upper(ticker), Salt(FALSE, day)>>)

\* C22: a /metrics request with force_refresh=true is never answered from
\* the cache: it invokes compute_all afresh, whatever requests came before.
C22_ForceRefreshBypasses ==
  (Answered /\ resp.force_refresh) => resp.computed

HasRun == run # NoRun

\* Some period of the document's validation map has ok = false.
ValidationFails == \E year \in DOMAIN Doc.validation : ~Doc.validation[year].ok

\* C23: with --strict the run ends in a hard failure (an error line on
\* stderr, exit status 1, nothing printed on stdout) whenever the document
\* has a top-level 'error' field or a period of its validation map has
\* ok = false; without --strict a document with 'error' only produces a
\* warning on stderr and the run goes on to print its report and exit 0.
C23_StrictMode ==
  HasRun =>
    /\ (run.args.strict /\ (IsErrorDoc \/ ValidationFails)) =>
         /\ run.exit = 1
         /\ run.stdout = <<>>
         /\ Len(run.stderr) = 1
         /\ run.stderr[1].kind = "Error processing"
    /\ (~run.args.strict /\ IsErrorDoc) =>
         /\ run.stderr = <<[kind |-> "Warning:", ticker |-> "", msg |-> Doc.error]>>
         /\ run.exit = 0
         /\ run.stdout # <<>>

\* A strict run on a success document one of whose periods does not balance.
C23_Witness ==
  /\ HasRun
  /\ run.args.strict
  /\ IsSuccessDoc
  /\ ValidationFails
  /\ run.exit = 1
  /\ run.stdout = <<>>

\* C30: with --format table and without --strict the run prints the whole
\* table for every document compute_all returns and exits with status 0; a
\* null leaf is printed as N/A.
C30_TableAlwaysRenders ==
  (HasRun /\ run.args.format = "table" /\ ~run.args.strict) =>
    /\ run.exit = 0
    /\ \A i \in DOMAIN run.stdout : ~Faults(run.stdout[i])

\* ------------------------------------------------- the endpoint's status

\* The computed result is empty or lacks a 'ratios' key.
LacksRatios(r) == ~r.raised /\ (DOMAIN r.val = {} \/ "ratios" \notin DOMAIN r.val)

====
